---- MODULE Spec2Model ----
(***************************************************************************)
(* A model of go-cli: the command-path resolver (command.go), the argument *)
(* tokenizer and Exec (cli.go), the history manager (history.go), the line *)
(* editor, the redraw and the REPL driver Run (cli.go) and the form driver *)
(* (form.go).                                                              *)
(*                                                                         *)
(* Strings are sequences of one-character strings, so that prefix tests,   *)
(* joins and trims are computed as the Go code computes them.  A Go slice  *)
(* is a record [nil, s]: nil-ness is kept because Exec tests args == nil.  *)
(***************************************************************************)
EXTENDS Integers, Sequences, FiniteSets, TLC

VARIABLES
  list,      \* cli.go: var list CommandList, the active command set
  path,      \* the token path handed to resolvePath / Exec
  pc,        \* position of the resolver specification
  rres,      \* what resolvePath returned
  eres,      \* what Exec did and returned
  entries,   \* history.entries
  index,     \* history.index
  hop,       \* the history operation that ran last
  harg,      \* its argument (set)
  hret,      \* what it returned (first/last/prev/next: moved or stayed;
             \* get: the text), or, if it returns nothing, whether it
             \* changed the history
  args,      \* parseArgs: the input slice
  newArgs,   \* parseArgs: the returned slice
  apc,       \* position of the tokenizer specification
  closed,    \* cli.go: var closed
  termbox,   \* the terminal backend: "down", "up" (after Init), "released"
  curPos,    \* cli.go: var curPos
  termSize,  \* cli.go: var termSize
  hwCursor,  \* where termbox.SetCursor put the hardware cursor last
  cells,     \* the runes the last redraw of an input line wrote with SetCell
  rpc,       \* position of Run
  cursor,    \* the logical cursor (Run: cursor; getInputs: cursor)
  startPos,  \* Run: startPos
  rret,      \* what Run returned
  rev,       \* the event handled last, and what getInput did with it
  route,     \* where the last Printf / Println wrote: "stdout" or "screen"
  closer,    \* who called Close while Run was executing
  buf,       \* drawText: the line argument
  dpc,       \* position of the redraw specification
  fl,        \* form.go: the FieldList of getInputs
  curField,  \* getInputs: curField
  fpc,       \* position of getInputs
  shown      \* every rune written to a cell of the form so far

vars == <<list, path, pc, rres, eres, entries, index, hop, harg, hret,
          args, newArgs, apc, closed, termbox, curPos, termSize, hwCursor,
          cells, rpc, cursor, startPos, rret, rev, route, closer, buf, dpc,
          fl, curField, fpc, shown>>

resolverVars == <<list, path, pc, rres, eres>>
historyVars == <<entries, index, hop, harg, hret>>
tokenizerVars == <<args, newArgs, apc>>
terminalVars == <<closed, termbox, curPos, termSize, hwCursor, cells>>
runVars == <<rpc, rret, rev, route, closer>>
formVars == <<fl, curField, fpc, shown>>
screenVars == <<terminalVars, cursor, startPos, runVars, buf, dpc, formVars>>

(***************************************************************************)
(* Bounds of the model.                                                    *)
(***************************************************************************)
MaxPath == 3       \* longest token path given to resolvePath / Exec
MaxEntries == 3    \* history entries are appended only below this length
MaxArgs == 3       \* longest input slice given to parseArgs
MaxArgLen == 2     \* longest element of such a slice
MaxWidth == 10     \* widest terminal of the redraw specification
MaxBuf == 3        \* longest line drawn, the example line apart
MaxLine == 1       \* longest line typed at the prompt, in bytes
MaxField == 2      \* longest text typed into a form field, in bytes
MaxRow == 4        \* lowest row a form is followed to as its redraws descend
MaxLog == 3        \* Run appends history entries only below this length

(***************************************************************************)
(* Strings and slices.                                                     *)
(***************************************************************************)
Space == " "
Quote == "\""
Backslash == "\\"
QMark == <<"?">>
EmptyStr == <<>>

Slice(s) == [nil |-> FALSE, s |-> s]
NilSlice == [nil |-> TRUE, s |-> <<>>]

\* path[from:] of a non-nil path: never nil, possibly empty
SliceFrom(p, from) == Slice(SubSeq(p, from + 1, Len(p)))

LastOf(s) == s[Len(s)]

RECURSIVE Join(_, _)
Join(ss, sep) ==
  IF Len(ss) = 0 THEN <<>>
  ELSE IF Len(ss) = 1 THEN ss[1]
  ELSE ss[1] \o sep \o Join(Tail(ss), sep)

HasPrefix(s, p) == Len(p) <= Len(s) /\ SubSeq(s, 1, Len(p)) = p

RECURSIVE TrimLeftSpace(_)
TrimLeftSpace(s) ==
  IF Len(s) > 0 /\ s[1] = Space THEN TrimLeftSpace(Tail(s)) ELSE s

(***************************************************************************)
(* command.go: Command and CommandList.  A CommandList is a function from  *)
(* names to Commands (the empty function is the empty or nil map); Handler *)
(* is TRUE when the handler is not nil.                                    *)
(***************************************************************************)
Command(desc, arguments, handler, sub) ==
  [Description |-> desc, Arguments |-> arguments, Handler |-> handler,
   List |-> sub]

EmptyList == <<>>

\* The zero Command, standing for the nil *Command of curCmd.
NoCommand == Command(<<>>, <<>>, FALSE, EmptyList)

\* strings.TrimLeft(prefix+" "+name, " ")
ItemKey(prefix, name) == TrimLeftSpace(prefix \o <<Space>> \o name)

\* The "Search" branch: the children whose name starts with the token, keyed
\* by ItemKey.  (Names of the model carry no leading space, so that two
\* children never share a key.)
SearchPossibilities(curList, prefix, tok) ==
  LET hits == {name \in DOMAIN curList : HasPrefix(name, tok)}
      keys == {ItemKey(prefix, name) : name \in hits}
  IN  [k \in keys |->
         curList[CHOOSE name \in hits : ItemKey(prefix, name) = k]]

\* for name, item := range *curList { possibilities[ItemKey] = item }
WithChildren(possibilities, curList, prefix) ==
  LET keys == {ItemKey(prefix, name) : name \in DOMAIN curList}
      kids == [k \in keys |->
                 curList[CHOOSE name \in DOMAIN curList :
                           ItemKey(prefix, name) = k]]
  IN  kids @@ possibilities

\* The state of resolvePath's locals on entry to the loop.
ResolveStart(l) ==
  [i |-> 0, argsIndex |-> 0, possibilities |-> <<>>, prefix |-> <<>>,
   curList |-> l, hasCmd |-> FALSE, curCmd |-> NoCommand, list |-> FALSE,
   returned |-> FALSE]

\* the loop without its sentinel test
IsSentinelNever(p, i) == FALSE

\* The sentinel test of the loop: i == len(path)-1 && path[i] == "?"
IsSentinel(p, i) == i = Len(p) - 1 /\ p[i + 1] = QMark

\* The "Exact match" branch of the loop body (i is 0-based as in the code).
ExactMatch(p, st) ==
  LET tok == p[st.i + 1]
      cmd == st.curList[tok]
      pre == Join(SubSeq(p, 1, st.i + 1), <<Space>>)
  IN  [st EXCEPT !.i = st.i + 1,
                 !.hasCmd = TRUE,
                 !.curCmd = cmd,
                 !.curList = cmd.List,
                 !.argsIndex = st.argsIndex + 1,
                 !.prefix = pre,
                 !.possibilities = (pre :> cmd)]

\* The "Single match" branch: name is the key of the only possibility.
SingleMatch(st, found) ==
  LET name == CHOOSE k \in DOMAIN found : TRUE
      item == found[name]
  IN  [st EXCEPT !.i = st.i + 1,
                 !.hasCmd = TRUE,
                 !.curCmd = item,
                 !.curList = item.List,
                 !.argsIndex = st.argsIndex + 1,
                 !.prefix = ItemKey(st.prefix, name),
                 !.possibilities = found]

\* for i := 0; i < len(path); i++ { ... }
RECURSIVE ResolveLoop(_, _)
ResolveLoop(p, st) ==
  IF st.i >= Len(p) THEN st
  ELSE IF IsSentinel(p, st.i) THEN [st EXCEPT !.list = TRUE]
  ELSE IF DOMAIN st.curList = {} THEN st
  ELSE IF p[st.i + 1] \in DOMAIN st.curList
       THEN ResolveLoop(p, ExactMatch(p, st))
  ELSE LET found == SearchPossibilities(st.curList, st.prefix, p[st.i + 1])
       IN  IF Cardinality(DOMAIN found) = 1
           THEN ResolveLoop(p, SingleMatch(st, found))
           ELSE [st EXCEPT !.possibilities = found, !.list = TRUE,
                           !.returned = TRUE]

ParentPanic == "parent item cannot have arguments"

ResolveResult(panic, possNil, possibilities, a, l) ==
  [panic |-> panic, possNil |-> possNil, possibilities |-> possibilities,
   args |-> a, list |-> l]

\* the code after the loop exposing the children of every branch, also of
\* one that has a handler
ResolveTailListsAll(p, st) ==
  LET branch == DOMAIN st.curList # {}
      a == SliceFrom(p, st.argsIndex)
  IN  IF branch /\ st.hasCmd /\ Len(st.curCmd.Arguments) > 0
      THEN ResolveResult(ParentPanic, TRUE, <<>>, NilSlice, FALSE)
      ELSE ResolveResult("", FALSE,
             IF branch /\ (st.list \/ st.hasCmd)
             THEN WithChildren(st.possibilities, st.curList, st.prefix)
             ELSE st.possibilities,
             a,
             st.list \/ (Len(a.s) > 0 /\ LastOf(a.s) = QMark))

\* the code after the loop without the check of the parent's arguments
ResolveTailNoPanic(p, st) ==
  LET branch == DOMAIN st.curList # {}
      a == SliceFrom(p, st.argsIndex)
  IN  ResolveResult("", FALSE,
        IF branch /\ (st.list \/ (st.hasCmd /\ ~st.curCmd.Handler))
        THEN WithChildren(st.possibilities, st.curList, st.prefix)
        ELSE st.possibilities,
        a,
        st.list \/ (Len(a.s) > 0 /\ LastOf(a.s) = QMark))

\* The code after the loop.
ResolveTail(p, st) ==
  LET branch == DOMAIN st.curList # {}
      a == SliceFrom(p, st.argsIndex)
  IN  IF branch /\ st.hasCmd /\ Len(st.curCmd.Arguments) > 0
      THEN ResolveResult(ParentPanic, TRUE, <<>>, NilSlice, FALSE)
      ELSE ResolveResult("", FALSE,
             IF branch /\ (st.list \/ (st.hasCmd /\ ~st.curCmd.Handler))
             THEN WithChildren(st.possibilities, st.curList, st.prefix)
             ELSE st.possibilities,
             a,
             st.list \/ (Len(a.s) > 0 /\ LastOf(a.s) = QMark))

\* func (l CommandList) resolvePath(path []string)
resolvePath(l, p) ==
  IF p.nil \/ Len(p.s) = 0 \/ (Len(p.s) = 1 /\ p.s[1] = EmptyStr)
  THEN ResolveResult("", TRUE, <<>>, NilSlice, FALSE)
  ELSE LET st == ResolveLoop(p.s, ResolveStart(l))
       IN  IF st.returned
           THEN ResolveResult("", FALSE, st.possibilities,
                              SliceFrom(p.s, st.argsIndex), TRUE)
           ELSE ResolveTail(p.s, st)

(***************************************************************************)
(* cli.go: parseArgs.  The scanner state is the slice built so far (out,   *)
(* with arg pointing at its last element) and the flags inQuote, isEscaped.*)
(***************************************************************************)
ScanStart(out) == [out |-> out, inQuote |-> FALSE, isEscaped |-> FALSE]

\* *arg += c
AppendToArg(out, c) == [out EXCEPT ![Len(out)] = out[Len(out)] \o <<c>>]

\* case '\\'
ScanBackslash(st) ==
  IF st.isEscaped
  THEN [st EXCEPT !.out = AppendToArg(st.out, Backslash), !.isEscaped = FALSE]
  ELSE [st EXCEPT !.isEscaped = TRUE]

\* case '"'
ScanQuote(st) ==
  IF st.isEscaped
  THEN [st EXCEPT !.out = AppendToArg(st.out, Quote), !.isEscaped = FALSE]
  ELSE [st EXCEPT !.inQuote = ~st.inQuote]

\* default
ScanOther(st, r) ==
  [st EXCEPT !.out = AppendToArg(st.out, r), !.isEscaped = FALSE]

\* The separator between two elements (current revision), or case ' ' of the
\* joined scan (earlier revision).
ScanSeparator(st) ==
  IF st.inQuote \/ st.isEscaped
  THEN [st EXCEPT !.out = AppendToArg(st.out, Space), !.isEscaped = FALSE]
  ELSE [st EXCEPT !.out = Append(st.out, <<>>)]

\* The switch of the current revision: a space inside an element is an
\* ordinary character.
ScanRune(st, r) ==
  IF r = Backslash THEN ScanBackslash(st)
  ELSE IF r = Quote THEN ScanQuote(st)
  ELSE ScanOther(st, r)

RECURSIVE ScanElement(_, _)
ScanElement(st, str) ==
  IF Len(str) = 0 THEN st
  ELSE ScanElement(ScanRune(st, str[1]), Tail(str))

\* The body of "for i := range args" of the current revision.
ScanArg(st, str) ==
  IF str = EmptyStr THEN st
  ELSE ScanElement(ScanSeparator(st), str)

RECURSIVE ScanArgs(_, _)
ScanArgs(st, a) ==
  IF Len(a) = 0 THEN st
  ELSE ScanArgs(ScanArg(st, a[1]), Tail(a))

\* func parseArgs(args []string) []string, current revision.  newArgs stays
\* nil until the first non-empty element appends to it.
parseArgs(a) ==
  IF a.nil \/ Len(a.s) = 0 THEN a
  ELSE LET st == ScanArgs(ScanStart(<<>>), a.s)
       IN  [nil |-> Len(st.out) = 0, s |-> st.out]

\* The switch of the earlier revision, with its case ' '.
ScanRuneJoined(st, r) ==
  IF r = Space THEN ScanSeparator(st) ELSE ScanRune(st, r)

RECURSIVE ScanJoined(_, _)
ScanJoined(st, str) ==
  IF Len(str) = 0 THEN st
  ELSE ScanJoined(ScanRuneJoined(st, str[1]), Tail(str))

\* func parseArgs(args []string) []string, earlier revision: the grammar
\* over strings.Join(args, " "), starting from one empty argument.
parseArgsJoined(a) ==
  IF a.nil \/ Len(a.s) = 0 THEN a
  ELSE Slice(ScanJoined(ScanStart(<<EmptyStr>>), Join(a.s, <<Space>>)).out)

(***************************************************************************)
(* cli.go: Exec.  What Exec prints is a sequence of lines; each handler    *)
(* invocation is recorded with the key it was found under and its args.    *)
(***************************************************************************)
\* Byte values of the characters of the model, for sort.Strings.
CharCode(c) ==
  CASE c = " " -> 32
    [] c = "\"" -> 34
    [] c = "?" -> 63
    [] c = "\\" -> 92
    [] c = "a" -> 97
    [] c = "b" -> 98
    [] c = "c" -> 99
    [] c = "d" -> 100
    [] c = "e" -> 101
    [] OTHER -> 120

RECURSIVE StrLess(_, _)
StrLess(x, y) ==
  IF Len(y) = 0 THEN FALSE
  ELSE IF Len(x) = 0 THEN TRUE
  ELSE IF CharCode(x[1]) # CharCode(y[1]) THEN CharCode(x[1]) < CharCode(y[1])
  ELSE StrLess(Tail(x), Tail(y))

\* sort.Strings over the keys of a map
RECURSIVE SortStrings(_)
SortStrings(S) ==
  IF S = {} THEN <<>>
  ELSE LET least == CHOOSE x \in S : \A y \in S \ {x} : StrLess(x, y)
       IN  <<least>> \o SortStrings(S \ {least})

Line(kind, name, words, column) ==
  [kind |-> kind, name |-> name, words |-> words, column |-> column]

NotFoundLine == Line("Command not found", <<>>, <<>>, 0)

\* Printf("Usage: %s", name); Printf(" <%s>", arg)...; Printf("\n")
UsageLine(name, item) == Line("Usage", name, item.Arguments, 0)

MaxOf(S) == IF S = {} THEN 0 ELSE CHOOSE n \in S : \A m \in S : m <= n

\* The listing: one line per sorted name whose item has a handler, the
\* description starting at column maxNameLen.
RECURSIVE ListingLines(_, _, _)
ListingLines(items, names, maxNameLen) ==
  IF Len(names) = 0 THEN <<>>
  ELSE (IF items[names[1]].Handler
        THEN <<Line("Item", names[1], <<items[names[1]].Description>>,
                    maxNameLen)>>
        ELSE <<>>)
       \o ListingLines(items, Tail(names), maxNameLen)

Listing(items) ==
  LET names == SortStrings(DOMAIN items)
      maxNameLen == MaxOf({Len(n) : n \in DOMAIN items}) + 4
  IN  ListingLines(items, names, maxNameLen)

ExecResult(panic, executed, calls, out) ==
  [panic |-> panic, executed |-> executed, calls |-> calls, out |-> out]

\* the handler branch invoking the handler and then falling through to the
\* final return false
ExecSingleFallsThrough(items, a) ==
  LET name == CHOOSE k \in DOMAIN items : TRUE
      item == items[name]
      parsed == parseArgs(a)
  IN  IF ~item.Handler THEN ExecResult("", FALSE, <<>>, <<>>)
      ELSE IF parsed.nil \/ Len(parsed.s) # Len(item.Arguments)
      THEN ExecResult("", FALSE, <<>>, <<UsageLine(name, item)>>)
      ELSE ExecResult("", FALSE, <<[name |-> name, args |-> parsed.s]>>, <<>>)

\* The "Execute item handler" branch: items holds one entry.
ExecSingle(items, a) ==
  LET name == CHOOSE k \in DOMAIN items : TRUE
      item == items[name]
      parsed == parseArgs(a)
  IN  IF ~item.Handler THEN ExecResult("", FALSE, <<>>, <<>>)
      ELSE IF parsed.nil \/ Len(parsed.s) # Len(item.Arguments)
      THEN ExecResult("", FALSE, <<>>, <<UsageLine(name, item)>>)
      ELSE ExecResult("", TRUE, <<[name |-> name, args |-> parsed.s]>>, <<>>)

\* Dispatch without the test for nil matches: the empty input is reported
\* like a command that was not found.
DispatchNilNotFound(r) ==
  LET n == Cardinality(DOMAIN r.possibilities)
  IN  IF n = 0 THEN ExecResult("", FALSE, <<>>, <<NotFoundLine>>)
      ELSE IF n = 1 /\ ~r.list THEN ExecSingle(r.possibilities, r.args)
      ELSE ExecResult("", FALSE, <<>>, Listing(r.possibilities))

\* Exec after its call of resolvePath (cli.go lines 182-234).
Dispatch(r) ==
  LET n == Cardinality(DOMAIN r.possibilities)
  IN  IF r.possNil THEN ExecResult("", FALSE, <<>>, <<>>)
      ELSE IF n = 0 THEN ExecResult("", FALSE, <<>>, <<NotFoundLine>>)
      ELSE IF n = 1 /\ ~r.list THEN ExecSingle(r.possibilities, r.args)
      ELSE ExecResult("", FALSE, <<>>, Listing(r.possibilities))

\* func Exec(path []string) bool; a panic of resolvePath propagates.
Exec(l, p) ==
  LET r == resolvePath(l, p)
  IN  IF r.panic # "" THEN ExecResult(r.panic, FALSE, <<>>, <<>>)
      ELSE Dispatch(r)

(***************************************************************************)
(* The command sets and token paths the resolver is exercised with.        *)
(***************************************************************************)
NameA == <<"a">>
NameAB == <<"a", "b">>
Desc == <<"d">>
ArgLists == {<<>>, <<(<<"x">>)>>}

Leaves == {Command(Desc, ar, h, EmptyList) : ar \in ArgLists, h \in BOOLEAN}

\* The lists below a first-level command: one or two leaves of one kind.
SubLists ==
  {[n \in S |-> leaf] : S \in {{NameA}, {NameAB}, {NameA, NameAB}},
                        leaf \in Leaves}

Branches ==
  {Command(Desc, ar, h, sub) : ar \in ArgLists, h \in BOOLEAN,
                               sub \in SubLists}

IsBranch(cmd) == DOMAIN cmd.List # {}

\* A list with a child named "?", to see that the sentinel selects nothing.
QuestionList ==
  (QMark :> Command(Desc, <<>>, TRUE, EmptyList))
    @@ (NameA :> Command(Desc, <<>>, TRUE, EmptyList))

\* A list three levels deep: ab holds a, which holds the commands a and ab.
DeepList ==
  NameAB :> Command(Desc, <<>>, FALSE,
              NameA :> Command(Desc, <<>>, FALSE,
                         (NameA :> Command(Desc, <<>>, TRUE, EmptyList))
                         @@ (NameAB :> Command(Desc, <<>>, TRUE, EmptyList))))

\* Every list over the names a, ab of leaves and branches, at most one of
\* them a branch, the list with the "?" child and the list of three levels.
RootLists ==
  {l \in UNION {[S -> Leaves \cup Branches] : S \in SUBSET {NameA, NameAB}} :
     Cardinality({n \in DOMAIN l : IsBranch(l[n])}) <= 1}
  \cup {QuestionList, DeepList}

Tokens == {EmptyStr, NameA, NameAB, QMark, <<Quote>>}

Paths ==
  {NilSlice} \cup
  {Slice(p) : p \in UNION {[1..n -> Tokens] : n \in 0..MaxPath}}

NoResolve == ResolveResult("", TRUE, <<>>, NilSlice, FALSE)
NoExec == ExecResult("", FALSE, <<>>, <<>>)

ResolverInit ==
  /\ list \in RootLists
  /\ path \in Paths
  /\ pc = "start"
  /\ rres = NoResolve
  /\ eres = NoExec

ResolverIdle ==
  /\ list = EmptyList
  /\ path = NilSlice
  /\ pc = "idle"
  /\ rres = NoResolve
  /\ eres = NoExec

\* Exec, line 181: items, args, showList := list.resolvePath(path)
Resolve ==
  /\ pc = "start"
  /\ rres' = resolvePath(list, path)
  /\ pc' = IF rres'.panic # "" THEN "panicked" ELSE "resolved"
  /\ eres' = IF rres'.panic # ""
             THEN ExecResult(rres'.panic, FALSE, <<>>, <<>>) ELSE eres
  /\ UNCHANGED <<list, path, historyVars, tokenizerVars, screenVars>>

\* Exec, lines 182-234
ExecDispatch ==
  /\ pc = "resolved"
  /\ eres' = Dispatch(rres)
  /\ pc' = "executed"
  /\ UNCHANGED <<list, path, rres, historyVars, tokenizerVars, screenVars>>

(***************************************************************************)
(* history.go.  A history is [entries, index]; index is 0-based as in the  *)
(* code, so the current entry is entries[index + 1].  Texts are opaque:    *)
(* the history only compares them.                                         *)
(***************************************************************************)
line(original) == [original |-> original, edited |-> "", isEdited |-> FALSE]

History(e, i) == [entries |-> e, index |-> i]

isNew(h) == Len(h.entries) = 0 \/ h.index = Len(h.entries)

isFirst(h) == Len(h.entries) = 0 \/ h.index = 0

isLast(h) == Len(h.entries) = 0 \/ h.index = Len(h.entries) - 1

\* The movements return the history and whether they moved.
Moved(h, ret) == [h |-> h, ret |-> ret]

first(h) ==
  IF isFirst(h) THEN Moved(h, FALSE)
  ELSE Moved([h EXCEPT !.index = 0], TRUE)

last(h) ==
  IF isLast(h) THEN Moved(h, FALSE)
  ELSE Moved([h EXCEPT !.index = Len(h.entries) - 1], TRUE)

prev(h) ==
  IF isFirst(h) THEN Moved(h, FALSE)
  ELSE Moved([h EXCEPT !.index = h.index - 1], TRUE)

\* next without its isLast clamp
nextUnclamped(h) == Moved([h EXCEPT !.index = h.index + 1], TRUE)

next(h) ==
  IF isLast(h) THEN Moved(h, FALSE)
  ELSE Moved([h EXCEPT !.index = h.index + 1], TRUE)

get(h) ==
  IF isNew(h) THEN ""
  ELSE IF h.entries[h.index + 1].isEdited THEN h.entries[h.index + 1].edited
  ELSE h.entries[h.index + 1].original

\* new appending an entry whatever the text of the last one is
newAlwaysAppends(h) ==
  LET h1 == last(h).h
  IN  History(Append(h1.entries, line("")), Len(h1.entries))

new(h) ==
  LET h1 == last(h).h
  IN  IF get(h1) = "" THEN h1
      ELSE History(Append(h1.entries, line("")), h1.index + 1)

\* set without the case of the last entry: an edit of the last entry is
\* stored as an override too
setEditsLast(h, s) ==
  IF isNew(h) THEN [h EXCEPT !.entries = Append(h.entries, line(s))]
  ELSE IF s = h.entries[h.index + 1].original
  THEN [h EXCEPT !.entries[h.index + 1].isEdited = FALSE]
  ELSE [h EXCEPT !.entries[h.index + 1].edited = s,
                 !.entries[h.index + 1].isEdited = TRUE]

\* set storing every change in original, also on an earlier entry
setInOriginal(h, s) ==
  IF isNew(h) THEN [h EXCEPT !.entries = Append(h.entries, line(s))]
  ELSE [h EXCEPT !.entries[h.index + 1].original = s]

\* set not clearing the override when the original text is set again
setKeepsOverride(h, s) ==
  IF isNew(h) THEN [h EXCEPT !.entries = Append(h.entries, line(s))]
  ELSE IF isLast(h) THEN [h EXCEPT !.entries[h.index + 1].original = s]
  ELSE IF s = h.entries[h.index + 1].original THEN h
  ELSE [h EXCEPT !.entries[h.index + 1].edited = s,
                 !.entries[h.index + 1].isEdited = TRUE]

set(h, s) ==
  IF isNew(h) THEN [h EXCEPT !.entries = Append(h.entries, line(s))]
  ELSE IF isLast(h) THEN [h EXCEPT !.entries[h.index + 1].original = s]
  ELSE IF s = h.entries[h.index + 1].original
  THEN [h EXCEPT !.entries[h.index + 1].isEdited = FALSE]
  ELSE [h EXCEPT !.entries[h.index + 1].edited = s,
                 !.entries[h.index + 1].isEdited = TRUE]

revert(h) ==
  IF isNew(h) \/ ~h.entries[h.index + 1].isEdited THEN h
  ELSE [h EXCEPT !.entries[h.index + 1].edited = "",
                 !.entries[h.index + 1].isEdited = FALSE]

\* revertAndAdd leaving the override on the entry it copied
revertAndAddKeepsEdit(h) ==
  IF isLast(h) \/ ~h.entries[h.index + 1].isEdited THEN h
  ELSE [h EXCEPT !.entries[Len(h.entries)] =
                   line(h.entries[h.index + 1].edited)]

\* revertAndAdd appending the new entry instead of replacing the last one
revertAndAddAppends(h) ==
  IF isLast(h) \/ ~h.entries[h.index + 1].isEdited THEN h
  ELSE revert([h EXCEPT !.entries =
                          Append(h.entries, line(h.entries[h.index + 1].edited))])

revertAndAdd(h) ==
  IF isLast(h) \/ ~h.entries[h.index + 1].isEdited THEN h
  ELSE revert([h EXCEPT !.entries[Len(h.entries)] =
                          line(h.entries[h.index + 1].edited)])

\* The lines a user types in the model.
Texts == {"", "ls", "cd /", "ls -l"}

cur == History(entries, index)

HistoryInit ==
  /\ entries = <<>>
  /\ index = 0
  /\ hop = "init"
  /\ harg = ""
  /\ hret = ""

HistoryIdle ==
  /\ entries = <<>>
  /\ index = 0
  /\ hop = "idle"
  /\ harg = ""
  /\ hret = ""

\* One call of a history method: the history becomes h, and the call is
\* recorded with its argument and return value.
Called(op, arg, h, ret) ==
  /\ entries' = h.entries
  /\ index' = h.index
  /\ hop' = op
  /\ harg' = arg
  /\ hret' = ret
  /\ UNCHANGED <<resolverVars, tokenizerVars, screenVars>>

MovedText(ret) == IF ret THEN "moved" ELSE "stayed"

HFirst == Called("first", "", first(cur).h, MovedText(first(cur).ret))

HLast == Called("last", "", last(cur).h, MovedText(last(cur).ret))

HPrev == Called("prev", "", prev(cur).h, MovedText(prev(cur).ret))

HNext == Called("next", "", next(cur).h, MovedText(next(cur).ret))

ChangedText(h) == IF h # cur THEN "changed" ELSE "unchanged"

HNew ==
  /\ Len(new(cur).entries) <= MaxEntries
  /\ Called("new", "", new(cur), ChangedText(new(cur)))

HGet == Called("get", "", cur, get(cur))

HSet(s) ==
  /\ Len(set(cur, s).entries) <= MaxEntries
  /\ Called("set", s, set(cur, s), ChangedText(set(cur, s)))

HRevert == Called("revert", "", revert(cur), ChangedText(revert(cur)))

HRevertAndAdd ==
  Called("revertAndAdd", "", revertAndAdd(cur), ChangedText(revertAndAdd(cur)))

(***************************************************************************)
(* The inputs parseArgs is exercised with, and the call itself.            *)
(***************************************************************************)
ArgChars == {"a", Space, Quote, Backslash}

ArgElems == UNION {[1..n -> ArgChars] : n \in 0..MaxArgLen}

\* tokenize(["a", "\"b c\"", "d\\ e"]) of the specification's example
ExampleArgs ==
  <<(<<"a">>), <<Quote, "b", Space, "c", Quote>>,
    <<"d", Backslash, Space, "e">>>>

ArgInputs ==
  {NilSlice, Slice(ExampleArgs)} \cup
  {Slice(a) : a \in UNION {[1..n -> ArgElems] : n \in 0..MaxArgs}}

TokenizerInit ==
  /\ args \in ArgInputs
  /\ newArgs = NilSlice
  /\ apc = "start"

TokenizerIdle ==
  /\ args = NilSlice
  /\ newArgs = NilSlice
  /\ apc = "idle"

ParseArgs ==
  /\ apc = "start"
  /\ newArgs' = parseArgs(args)
  /\ apc' = "done"
  /\ UNCHANGED <<args, resolverVars, historyVars, screenVars>>

(***************************************************************************)
(* Text on the terminal.  A Go string is the sequence of its bytes, each a *)
(* one-character string.  Lead followed by Cont stands for the two bytes   *)
(* of a two-byte UTF-8 encoding, Lead3 followed by two Cont for the three  *)
(* bytes of a three-byte encoding; any of these bytes anywhere else is     *)
(* invalid UTF-8 and decodes, as in Go, to U+FFFD of width 1.  A rune is   *)
(* named by a string: an ASCII character by itself, a rune of several      *)
(* bytes by these bytes, the replacement character by "U+FFFD".            *)
(***************************************************************************)
Lead == "^"
Lead3 == "#"
Cont == "~"

pos(x, y) == [x |-> x, y |-> y]

\* The hardware cursor before any SetCursor.
NoCursor == pos(-1, -1)

\* for _, r := range s: the runes of s, each with its width in bytes
RECURSIVE Runes(_)
Runes(bs) ==
  IF Len(bs) = 0 THEN <<>>
  ELSE IF bs[1] = Lead /\ Len(bs) >= 2 /\ bs[2] = Cont
  THEN <<[r |-> Lead \o Cont, w |-> 2]>> \o Runes(SubSeq(bs, 3, Len(bs)))
  ELSE IF bs[1] = Lead3 /\ Len(bs) >= 3 /\ bs[2] = Cont /\ bs[3] = Cont
  THEN <<[r |-> Lead3 \o Cont \o Cont, w |-> 3]>>
         \o Runes(SubSeq(bs, 4, Len(bs)))
  ELSE <<[r |-> IF bs[1] \in {Lead, Lead3, Cont} THEN "U+FFFD" ELSE bs[1],
          w |-> 1]>> \o Runes(Tail(bs))

RuneCountInString(bs) == Len(Runes(bs))

\* the loop body of drawText wrapping only past the last column
DrawRuneWrapsLate(d, r, csr, W) ==
  LET d1 == IF d.i = csr THEN [d EXCEPT !.hw = d.curPos] ELSE d
      x == d1.curPos.x + 1
  IN  IF r = "\r" THEN [d1 EXCEPT !.curPos = pos(0, d.curPos.y)]
      ELSE IF r = "\n" THEN [d1 EXCEPT !.curPos = pos(0, d.curPos.y + 1)]
      ELSE [d1 EXCEPT !.cells = Append(d1.cells, [at |-> d1.curPos, r |-> r]),
                      !.curPos = IF x > W THEN pos(0, d1.curPos.y + 1)
                                 ELSE pos(x, d1.curPos.y),
                      !.i = d1.i + 1]

\* The loop body of drawText for the rune r.  d holds curPos, the hardware
\* cursor hw, the cells written and the cell counter i.
DrawRune(d, r, csr, W) ==
  LET d1 == IF d.i = csr THEN [d EXCEPT !.hw = d.curPos] ELSE d
      x == d1.curPos.x + 1
  IN  IF r = "\r" THEN [d1 EXCEPT !.curPos = pos(0, d.curPos.y)]
      ELSE IF r = "\n" THEN [d1 EXCEPT !.curPos = pos(0, d.curPos.y + 1)]
      ELSE [d1 EXCEPT !.cells = Append(d1.cells, [at |-> d1.curPos, r |-> r]),
                      !.curPos = IF x >= W THEN pos(0, d1.curPos.y + 1)
                                 ELSE pos(x, d1.curPos.y),
                      !.i = d1.i + 1]

RECURSIVE DrawLoop(_, _, _, _)
DrawLoop(d, rs, csr, W) ==
  IF Len(rs) = 0 THEN d
  ELSE DrawLoop(DrawRune(d, rs[1].r, csr, W), Tail(rs), csr, W)

\* func drawText(cursor int, line string), drawing from curPos = at on a
\* terminal of width W = termSize.x whose hardware cursor is at hw.
drawText(csr, bs, at, hw, W) ==
  LET d == DrawLoop([curPos |-> at, hw |-> hw, cells |-> <<>>, i |-> 0],
                    Runes(bs), csr, W)
  IN  IF d.i = csr THEN [d EXCEPT !.hw = d.curPos] ELSE d

(***************************************************************************)
(* The editor, Run, the redraw and the form when they are not under        *)
(* observation.                                                            *)
(***************************************************************************)
TerminalIdle ==
  /\ closed = TRUE
  /\ termbox = "down"
  /\ curPos = pos(0, 0)
  /\ termSize = pos(0, 0)
  /\ hwCursor = NoCursor
  /\ cells = <<>>
  /\ cursor = 0
  /\ startPos = pos(0, 0)

DrawIdle ==
  /\ buf = <<>>
  /\ dpc = "idle"

\* What is kept of the inputEvent getInput returned last: its Type, its Key
\* if Run has a case for it, its Error, whether getInput called
\* termbox.PollEvent, and for an Enter where the log stood: on its last
\* entry, on an earlier one, or on an earlier one with an edit.
NoEvent ==
  [Type |-> "", Key |-> "", Error |-> "", polled |-> FALSE, at |-> ""]

RunIdle ==
  /\ rpc = "idle"
  /\ rret = ""
  /\ rev = NoEvent
  /\ route = ""
  /\ closer = ""

FormIdle ==
  /\ fl = <<>>
  /\ curField = 0
  /\ fpc = "idle"
  /\ shown = {}

ScreenIdle == TerminalIdle /\ RunIdle /\ DrawIdle /\ FormIdle

(***************************************************************************)
(* cli.go: the line editor getInput.  The event read from the backend is   *)
(* tev; a termbox EventType or Key that the code leaves at its zero value  *)
(* is EventKey (termbox's first EventType) or "0" (no key).                *)
(***************************************************************************)
\* func bytePos(runePos int, s string) int; -1 stands for its panic
bytePos(runePos, bs) ==
  LET rs == Runes(bs)
      width[i \in 0..Len(rs)] == IF i = 0 THEN 0 ELSE width[i - 1] + rs[i].w
  IN  IF runePos \in 0..Len(rs) THEN width[runePos] ELSE -1

\* curPos = startPos, then drawText(ev.Cursor, ...) of ev.Input or, if mask
\* is not 0 (here ""), of strings.Repeat(string(mask), rune count)
Redraw(g, sp, csr, input, mask) ==
  LET text == IF mask # "" THEN [i \in 1..RuneCountInString(input) |-> mask]
              ELSE input
      d == drawText(csr, text, sp, g.hw, g.termSize.x)
  IN  [g EXCEPT !.ev.Input = input, !.ev.Cursor = csr, !.curPos = d.curPos,
                !.hw = d.hw, !.cells = d.cells]

\* getInput reading the next event before it looks at closed
getInputPollsFirst(sp, csr, input, mask, tev, t) ==
  [ev |-> [Type |-> IF t.closed THEN "EventError" ELSE "EventKey",
           Key |-> tev.Key, Input |-> input, Cursor |-> csr,
           Error |-> IF t.closed THEN "ErrNotRunning" ELSE ""],
   curPos |-> t.curPos, termSize |-> t.termSize, hw |-> t.hw,
   cells |-> t.cells, polled |-> TRUE, panic |-> FALSE]

\* func getInput(startPos pos, cursor int, input string, mask rune), with the
\* package state t = [closed, curPos, termSize, hw, cells] it reads and the
\* event tev that termbox.PollEvent returns if it is called.  The result
\* holds the returned inputEvent ev, the package state as it is left,
\* whether PollEvent was called, and whether bytePos panicked.
getInput(sp, csr, input, mask, tev, t) ==
  LET g0 == [ev |-> [Type |-> "EventKey", Key |-> "0", Input |-> input,
                     Cursor |-> csr, Error |-> ""],
             curPos |-> t.curPos, termSize |-> t.termSize, hw |-> t.hw,
             cells |-> t.cells, polled |-> TRUE, panic |-> FALSE]
      g == [g0 EXCEPT !.ev.Key = tev.Key]
      n == RuneCountInString(input)
      p == bytePos(csr, input)
      len == Len(input)
  IN  IF t.closed
      THEN [g0 EXCEPT !.ev = [Type |-> "EventError", Key |-> "0",
                              Input |-> <<>>, Cursor |-> 0,
                              Error |-> "ErrNotRunning"],
                      !.polled = FALSE]
      ELSE IF tev.Type = "EventKey"
      THEN CASE tev.Key \in {"KeyTab", "KeyEnd"} ->
                  Redraw(g, sp, n, input, mask)
             [] tev.Key = "KeyHome" -> Redraw(g, sp, 0, input, mask)
             [] tev.Key = "KeyArrowLeft" ->
                  IF csr > 0 THEN Redraw(g, sp, csr - 1, input, mask) ELSE g
             [] tev.Key = "KeyArrowRight" ->
                  IF csr < n THEN Redraw(g, sp, csr + 1, input, mask) ELSE g
             [] tev.Key = "KeyDelete" ->
                  IF input # <<>> /\ csr < n
                  THEN IF p < 0 THEN [g EXCEPT !.panic = TRUE]
                       ELSE Redraw(g, sp, csr,
                                   SubSeq(input, 1, p)
                                     \o SubSeq(input, p + 2, len), mask)
                  ELSE g
             [] tev.Key \in {"KeyBackspace2", "KeyBackspace"} ->
                  IF input # <<>> /\ csr > 0
                  THEN IF p < 0 THEN [g EXCEPT !.panic = TRUE]
                       ELSE Redraw(g, sp, csr - 1,
                                   SubSeq(input, 1, p - 1)
                                     \o SubSeq(input, p + 1, len), mask)
                  ELSE g
             [] tev.Key \in {"KeySpace", "0"} ->
                  IF p < 0 THEN [g EXCEPT !.panic = TRUE]
                  ELSE Redraw(g, sp, csr + 1,
                              SubSeq(input, 1, p)
                                \o (IF tev.Key = "KeySpace" THEN <<Space>>
                                    ELSE tev.Ch)
                                \o SubSeq(input, p + 1, len), mask)
             [] OTHER -> g
      ELSE IF tev.Type = "EventResize"
      THEN [g0 EXCEPT !.termSize = pos(tev.Width, tev.Height)]
      ELSE IF tev.Type = "EventError"
      THEN [g0 EXCEPT !.ev.Type = "EventError", !.ev.Error = tev.Err]
      ELSE g0

(***************************************************************************)
(* cli.go: Run.  The history log holds each line as a string; Str and      *)
(* Bytes convert between a string and its bytes.  Run is at "loop" between *)
(* two passes of its loop, at "poll" when Close was called while getInput  *)
(* waited in PollEvent (nothing else runs beside Run), and at "returned"   *)
(* or "panicked" once it is over, when its locals (the log,                *)
(* cursor, startPos) are gone and read as zero.  A handler that Exec       *)
(* invokes returns, prints with Println, calls Close, or panics.           *)
(***************************************************************************)
RECURSIVE Str(_)
Str(bs) == IF Len(bs) = 0 THEN "" ELSE bs[1] \o Str(Tail(bs))

\* The lines that can be typed at the prompt.
Lines == UNION {[1..n -> {"a", "b", Space, "?"}] : n \in 0..MaxLine}

\* The bytes of a line held as a string.
Bytes ==
  [text \in {Str(bs) : bs \in Lines} |-> CHOOSE bs \in Lines : Str(bs) = text]

RECURSIVE TrimRightSpace(_)
TrimRightSpace(bs) ==
  IF Len(bs) > 0 /\ bs[Len(bs)] = Space
  THEN TrimRightSpace(SubSeq(bs, 1, Len(bs) - 1)) ELSE bs

\* strings.Split(s, " ")
RECURSIVE Split(_)
Split(bs) ==
  IF \A i \in 1..Len(bs) : bs[i] # Space THEN <<bs>>
  ELSE LET k == CHOOSE i \in 1..Len(bs) :
                  bs[i] = Space /\ \A j \in 1..(i - 1) : bs[j] # Space
       IN  <<SubSeq(bs, 1, k - 1)>> \o Split(SubSeq(bs, k + 1, Len(bs)))

\* cli.go: var prefix = "# "
Prefix == <<"#", Space>>

\* curPos = pos{0, 0}; drawText(-1, prefix); startPos = curPos;
\* drawText(cursor, log.get())
Prompt(W, hw, csr, bs) ==
  LET d1 == drawText(-1, Prefix, pos(0, 0), hw, W)
      d2 == drawText(csr, bs, d1.curPos, d1.hw, W)
  IN  [curPos |-> d2.curPos, startPos |-> d1.curPos, hw |-> d2.hw,
       cells |-> d2.cells]

\* What one pass of the loop of Run leaves: the log h, the locals and the
\* package state, the Exec it made (none yet) and where that printed, and
\* how Run went on (exit = "" if it stays in the loop).
Pass(h, csr, g) ==
  [h |-> h, cursor |-> csr, curPos |-> g.curPos, startPos |-> startPos,
   termSize |-> g.termSize, hw |-> g.hw, cells |-> g.cells,
   closed |-> closed, closer |-> closer, route |-> "", path |-> NilSlice,
   eres |-> NoExec, exit |-> "", ret |-> ""]

\* An Exec made by Run with the handler behaviour hb: its prints go where
\* closed sends them, and a handler that ran may close the CLI or panic.
Execed(r, x, p, hb) ==
  LET ran == x.executed
      printed == x.out # <<>> \/ (ran /\ hb = "print")
  IN  [r EXCEPT !.path = p,
                !.eres = x,
                !.route = IF ~printed THEN r.route
                          ELSE IF r.closed THEN "stdout" ELSE "screen",
                !.closed = r.closed \/ (ran /\ hb = "close"),
                !.closer = IF ran /\ hb = "close" THEN "handler"
                           ELSE r.closer,
                !.exit = IF x.panic # "" \/ (ran /\ hb = "panic")
                         THEN "panicked" ELSE ""]

\* The input area redrawn at the end of a case of Run.
Prompted(r) ==
  LET d == Prompt(r.termSize.x, r.hw, r.cursor, Bytes[get(r.h)])
  IN  [r EXCEPT !.curPos = d.curPos, !.startPos = d.startPos, !.hw = d.hw,
                !.cells = d.cells]

\* case termbox.KeyEnter keeping the line after a successful Exec
OnEnterKeepsLine(r, hb) ==
  LET p == Slice(Split(TrimLeftSpace(TrimRightSpace(Bytes[get(r.h)]))))
      e == Execed(r, Exec(list, p), p, hb)
  IN  IF e.exit # "" THEN e
      ELSE IF e.eres.executed /\ e.closed
      THEN [e EXCEPT !.exit = "returned", !.ret = "nil"]
      ELSE Prompted(e)

\* case termbox.KeyEnter starting a new entry whatever Exec returned
OnEnterAlwaysNew(r, hb) ==
  LET p == Slice(Split(TrimLeftSpace(TrimRightSpace(Bytes[get(r.h)]))))
      e == Execed(r, Exec(list, p), p, hb)
  IN  IF e.exit # "" THEN e
      ELSE IF e.eres.executed /\ e.closed
      THEN [e EXCEPT !.exit = "returned", !.ret = "nil"]
      ELSE Prompted([e EXCEPT
                       !.h = new(IF ~isLast(r.h) THEN revertAndAdd(r.h)
                                 ELSE r.h),
                       !.cursor = 0])

\* case termbox.KeyEnter
OnEnter(r, hb) ==
  LET p == Slice(Split(TrimLeftSpace(TrimRightSpace(Bytes[get(r.h)]))))
      e == Execed(r, Exec(list, p), p, hb)
  IN  IF e.exit # "" THEN e
      ELSE IF e.eres.executed /\ e.closed
      THEN [e EXCEPT !.exit = "returned", !.ret = "nil"]
      ELSE IF e.eres.executed
      THEN Prompted([e EXCEPT
                       !.h = new(IF ~isLast(r.h) THEN revertAndAdd(r.h)
                                 ELSE r.h),
                       !.cursor = 0])
      ELSE Prompted(e)

\* case termbox.KeyTab handing the line to Exec as it is
OnTabPlain(r, hb) ==
  LET p == Slice(Split(TrimLeftSpace(TrimRightSpace(Bytes[get(r.h)]))))
      e == Execed(r, Exec(list, p), p, hb)
  IN  IF e.exit # "" THEN e ELSE Prompted(e)

\* case termbox.KeyTab
OnTab(r, hb) ==
  LET p == Slice(Split(TrimLeftSpace(TrimRightSpace(
                         Bytes[get(r.h)] \o <<Space, "?">>))))
      e == Execed(r, Exec(list, p), p, hb)
  IN  IF e.exit # "" THEN e ELSE Prompted(e)

\* case termbox.KeyArrowUp, case termbox.KeyArrowDown: m is log.prev() or
\* log.next()
OnArrow(r, m) ==
  IF m.ret
  THEN Prompted([r EXCEPT !.h = m.h,
                          !.cursor = RuneCountInString(Bytes[get(m.h)])])
  ELSE r

\* Where the log stands when Run handles an Enter.
EnterAt(h) ==
  IF isLast(h) THEN "last"
  ELSE IF h.entries[h.index + 1].isEdited THEN "edited" ELSE "earlier"

\* The keys the switch of Run has a case for.
RunKeys == {"KeyEnter", "KeyTab", "KeyArrowUp", "KeyArrowDown"}

\* The body of the loop of Run for the result g of getInput.
Handle(g, hb) ==
  LET r == Pass(set(cur, Str(g.ev.Input)), g.ev.Cursor, g)
  IN  IF g.panic THEN [Pass(cur, cursor, g) EXCEPT !.exit = "panicked"]
      ELSE IF g.ev.Type = "EventError"
      THEN [Pass(cur, cursor, g) EXCEPT !.exit = "returned",
                                        !.ret = g.ev.Error]
      ELSE IF g.ev.Type # "EventKey" THEN Pass(cur, cursor, g)
      ELSE CASE g.ev.Key = "KeyEnter" -> OnEnter(r, hb)
             [] g.ev.Key = "KeyTab" -> OnTab(r, hb)
             [] g.ev.Key = "KeyArrowUp" -> OnArrow(r, prev(r.h))
             [] g.ev.Key = "KeyArrowDown" -> OnArrow(r, next(r.h))
             [] OTHER -> r

\* The widths of the terminal Run is on.
Widths == {3}

\* The events termbox.PollEvent returns: the keys, a character, a resize,
\* an error, and an event of another type.
TermEvents ==
  LET tev(type, key, ch, w, err) ==
        [Type |-> type, Key |-> key, Ch |-> ch, Width |-> w, Height |-> 3,
         Err |-> err]
  IN  {tev("EventKey", k, <<>>, 0, "") :
         k \in {"KeyEnter", "KeyTab", "KeyArrowUp", "KeyArrowDown",
                "KeyArrowLeft", "KeyArrowRight", "KeyHome", "KeyEnd",
                "KeyDelete", "KeyBackspace", "KeyBackspace2", "KeySpace",
                "KeyEsc"}}
      \cup {tev("EventKey", "0", <<c>>, 0, "") : c \in {"a", "b", "?"}}
      \cup {tev("EventResize", "0", <<>>, w, "") : w \in Widths}
      \cup {tev("EventError", "0", <<>>, 0, "ErrTerm"),
            tev("EventInterrupt", "0", <<>>, 0, "")}

\* The command sets of the prompt: two commands that run; an ambiguous
\* prefix beside a leaf without handler; a command that declares an
\* argument, where "b" matches nothing; a command that runs beside a parent
\* that declares an argument.
ReplLists ==
  LET leaf(ar, h) == Command(Desc, ar, h, EmptyList)
      x == <<(<<"x">>)>>
  IN  {(NameA :> leaf(<<>>, TRUE)) @@ (<<"b">> :> leaf(<<>>, TRUE)),
       (<<"a", "a">> :> leaf(<<>>, TRUE)) @@ (NameAB :> leaf(<<>>, TRUE))
         @@ (<<"b">> :> leaf(<<>>, FALSE)),
       (NameA :> leaf(x, TRUE)),
       (NameA :> leaf(<<>>, TRUE))
         @@ (<<"b">> :> Command(Desc, x, TRUE, (NameA :> leaf(<<>>, TRUE))))}

\* The state before Run is called: SetList has set the command set.
RunInit ==
  /\ TerminalIdle /\ RunIdle
  /\ entries = <<>> /\ index = 0 /\ hop = "idle" /\ harg = "" /\ hret = ""
  /\ list \in ReplLists
  /\ path = NilSlice /\ pc = "idle" /\ rres = NoResolve /\ eres = NoExec

\* defer termbox.Close() taken as a call at the return statements only
closeOnReturnOnly(exit) ==
  IF exit = "returned" THEN "released" ELSE termbox

\* defer termbox.Close(): the backend once Run is over by return or panic
deferClose(exit) == IF exit # "" THEN "released" ELSE termbox

\* Run, lines 396-419: up to the first pass of the loop
RunStart ==
  /\ rpc \in {"idle", "returned"}
  /\ closed' = FALSE
  /\ entries' = <<>> /\ index' = 0 /\ cursor' = 0
  /\ closer' = "" /\ rev' = NoEvent
  /\ \E ok \in BOOLEAN, w \in Widths :
       IF ok
       THEN LET d == Prompt(w, hwCursor, 0, Bytes[get(History(<<>>, 0))])
            IN  /\ termbox' = "up"
                /\ termSize' = pos(w, 3)
                /\ curPos' = d.curPos /\ startPos' = d.startPos
                /\ hwCursor' = d.hw /\ cells' = d.cells
                /\ rpc' = "loop" /\ rret' = ""
       ELSE /\ rpc' = "returned" /\ rret' = "ErrInit"
            /\ UNCHANGED <<termbox, termSize, curPos, startPos, hwCursor,
                           cells>>
  /\ UNCHANGED <<list, path, pc, rres, eres, hop, harg, hret, route, buf,
                 dpc, formVars, tokenizerVars>>

\* Run, line 422: getInput is called after Close
RunGetInput ==
  /\ rpc = "loop"
  /\ closed
  /\ \E tev \in {e \in TermEvents : e.Key = "KeyEnter"} :
     \E g \in {getInput(startPos, cursor, Bytes[get(cur)], "", tev,
                        [closed |-> closed, curPos |-> curPos,
                         termSize |-> termSize, hw |-> hwCursor,
                         cells |-> cells])} :
           /\ g.ev.Type = "EventError"
           /\ rev' = [Type |-> g.ev.Type, Key |-> g.ev.Key,
                      Error |-> g.ev.Error,
                      polled |-> g.polled, at |-> ""]
           /\ rpc' = "returned" /\ rret' = g.ev.Error
           /\ termbox' = deferClose("returned")
           /\ entries' = <<>> /\ index' = 0 /\ cursor' = 0
           /\ startPos' = pos(0, 0)
  /\ UNCHANGED <<closed, curPos, termSize, hwCursor, cells, route, closer,
                 buf, dpc, formVars, resolverVars, hop, harg, hret,
                 tokenizerVars>>

\* Run, lines 422-507: getInput finds the CLI not closed, PollEvent returns
\* tev, getInput edits the line and the loop body handles the event to its
\* end.  At "poll" getInput was waiting in PollEvent when Close came.
RunEvent ==
  /\ (rpc = "loop" /\ ~closed) \/ rpc = "poll"
  /\ \E tev \in TermEvents :
     \E g \in {getInput(startPos, cursor, Bytes[get(cur)], "", tev,
                        [closed |-> FALSE, curPos |-> curPos,
                         termSize |-> termSize, hw |-> hwCursor,
                         cells |-> cells])} :
     \E hb \in IF g.ev.Key \in {"KeyEnter", "KeyTab"}
                THEN {"return", "print", "close", "panic"} ELSE {"return"} :
     \E r \in {Handle(g, hb)} :
           /\ Len(g.ev.Input) <= MaxLine
           /\ Len(r.h.entries) <= MaxLog
           /\ rev' = [Type |-> g.ev.Type,
                      Key |-> IF g.ev.Key \in RunKeys THEN g.ev.Key ELSE "0",
                      Error |-> g.ev.Error,
                      polled |-> g.polled,
                      at |-> IF g.ev.Type = "EventKey" /\ ~g.panic
                                  /\ g.ev.Key = "KeyEnter"
                             THEN EnterAt(set(cur, Str(g.ev.Input)))
                             ELSE ""]
           /\ entries' = IF r.exit # "" THEN <<>> ELSE r.h.entries
           /\ index' = IF r.exit # "" THEN 0 ELSE r.h.index
           /\ cursor' = IF r.exit # "" THEN 0 ELSE r.cursor
           /\ startPos' = IF r.exit # "" THEN pos(0, 0) ELSE r.startPos
           /\ curPos' = r.curPos /\ termSize' = r.termSize
           /\ hwCursor' = r.hw /\ cells' = r.cells
           /\ closed' = r.closed /\ closer' = r.closer /\ route' = r.route
           /\ path' = r.path /\ eres' = r.eres
           /\ rpc' = IF r.exit # "" THEN r.exit ELSE "loop"
           /\ rret' = r.ret
           /\ termbox' = deferClose(r.exit)
  /\ UNCHANGED <<list, pc, rres, hop, harg, hret, buf, dpc, formVars,
                 tokenizerVars>>

\* func Close(), called from outside the handlers while Run is executing:
\* before getInput tests closed, or once it waits in PollEvent
Close ==
  /\ rpc = "loop"
  /\ ~closed
  /\ closed' = TRUE
  /\ closer' = "external"
  /\ rpc' \in {"loop", "poll"}
  /\ UNCHANGED <<termbox, curPos, termSize, hwCursor, cells, cursor, startPos,
                 rret, rev, route, buf, dpc, formVars, resolverVars,
                 historyVars, tokenizerVars>>

\* func Printf / Println, called by the application while Run is not
\* executing
Printf ==
  /\ rpc \in {"idle", "returned"}
  /\ route' = IF closed THEN "stdout" ELSE "screen"
  /\ UNCHANGED <<terminalVars, cursor, startPos, rpc, rret, rev, closer, buf,
                 dpc, formVars, resolverVars, historyVars, tokenizerVars>>

(***************************************************************************)
(* form.go: a FieldList shown by Form.  A pass of drawing or input works   *)
(* on s = [fl, curField, cursor, curPos, termSize, hw, cells, shown],      *)
(* where shown collects every rune that a draw of the line of a masked     *)
(* field has written to a cell.                                            *)
(***************************************************************************)
MaskChar == "*"

Field(name, input, mask) ==
  [DisplayName |-> name, Input |-> input, Mask |-> mask, pos |-> pos(0, 0)]

\* drawText(csr, text) at curPos, text being the line of field k
FormDraw(s, k, csr, text) ==
  LET d == drawText(csr, text, s.curPos, s.hw, s.termSize.x)
  IN  [s EXCEPT !.curPos = d.curPos, !.hw = d.hw, !.cells = d.cells,
                !.shown = IF s.fl[k].Mask = "" THEN s.shown
                          ELSE s.shown
                                 \cup {d.cells[i].r : i \in 1..Len(d.cells)}]

\* curPos = fl[curField].pos; drawText(cursor, fl[curField].Input)
FormRedraw(s) ==
  LET k == s.curField + 1
  IN  FormDraw([s EXCEPT !.curPos = s.fl[k].pos], k, s.cursor, s.fl[k].Input)

\* func (f *Field) drawField(maxDNameLen int), f being field k: Printf and
\* Println draw only while the CLI is not closed
drawField(s, k, maxDNameLen) ==
  LET f == s.fl[k]
      label == f.DisplayName \o <<":">>
                 \o [i \in 1..(maxDNameLen - Len(f.DisplayName) + 4) |-> Space]
      d == drawText(-1, label, s.curPos, s.hw, s.termSize.x)
  IN  IF Len(f.DisplayName) = 0 THEN s
      ELSE IF closed THEN [s EXCEPT !.fl[k].pos = s.curPos]
      ELSE FormDraw([s EXCEPT !.curPos = d.curPos, !.fl[k].pos = d.curPos],
                    k, -1, f.Input \o <<"\n">>)

\* func (fl FieldList) drawForm(), from its field k on
RECURSIVE drawFields(_, _, _)
drawFields(s, k, maxDNameLen) ==
  IF k > Len(s.fl) THEN s
  ELSE drawFields(drawField(s, k, maxDNameLen), k + 1, maxDNameLen)

drawForm(s) ==
  drawFields(s, 1, MaxOf({Len(s.fl[k].DisplayName) : k \in 1..Len(s.fl)}))

\* getInputs moving to the field at curField + by, if there is one
FormMove(s, by) ==
  LET c == s.curField + by
  IN  IF c \in 0..(Len(s.fl) - 1)
      THEN FormRedraw([s EXCEPT
                         !.curField = c,
                         !.cursor = RuneCountInString(s.fl[c + 1].Input)])
      ELSE s

\* The body of the loop of getInputs for the result g of Field.getInput,
\* which stored ev.Input in the field if ev.Type is EventKey; s is the state
\* getInput left and y the row of curPos before it.  done tells that
\* getInputs returned.
getInputsPass(s, g, y) ==
  LET s1 == [s EXCEPT !.cursor = g.ev.Cursor]
      s2 == IF s1.curPos.y # y THEN FormRedraw(drawForm(s1)) ELSE s1
  IN  IF g.ev.Type = "EventKey"
      THEN CASE g.ev.Key = "KeyEnter" /\ s.curField = Len(s.fl) - 1 ->
                  [s2 EXCEPT !.done = TRUE]
             [] g.ev.Key \in {"KeyEnter", "KeyTab", "KeyArrowDown"} ->
                  FormMove(s2, 1)
             [] g.ev.Key = "KeyArrowUp" -> FormMove(s2, -1)
             [] OTHER -> s2
      ELSE IF g.ev.Type = "EventResize" THEN FormRedraw(drawForm(s))
      ELSE s

\* The width of the terminal a form is shown on: a field named "n" has its
\* line start at column 6, so that a line of two runes wraps.
FormWidth == 8

\* The events a form is given: the keys, the character a, a resize, an
\* error, and an event of another type.
FormEvents ==
  {e \in TermEvents : e.Ch \notin {<<"b">>, <<"?">>}}

\* The forms: a field with or without preset input and mask, alone or
\* followed by a second field with or without display name and mask.
FormLists ==
  LET First == {Field(<<"n">>, i, m) : i \in {<<>>, <<"a">>},
                                      m \in {"", MaskChar}}
      Second == {Field(<<"n">>, <<>>, m) : m \in {"", MaskChar}}
                  \cup {Field(<<>>, <<>>, "")}
  IN  {<<f>> : f \in First} \cup {<<f, g>> : f \in First, g \in Second}

\* The state in which Form is called: in a handler of a running CLI, or
\* with the CLI closed.
FormInit ==
  /\ closed \in BOOLEAN
  /\ termbox = IF closed THEN "down" ELSE "up"
  /\ termSize = pos(FormWidth, 4)
  /\ curPos = pos(0, 1)
  /\ startPos = pos(0, 0)
  /\ hwCursor = NoCursor
  /\ cells = <<>>
  /\ cursor = 0
  /\ fl \in FormLists
  /\ curField = 0
  /\ fpc = "start"
  /\ shown = {}

\* The state of a form as a pass works on it.
FormState ==
  [fl |-> fl, curField |-> curField, cursor |-> cursor, curPos |-> curPos,
   termSize |-> termSize, hw |-> hwCursor, cells |-> cells, shown |-> shown,
   done |-> FALSE]

\* Form up to the first pass of the loop of getInputs: fl.drawForm(), then
\* form.go lines 44-53
FormStart ==
  /\ fpc = "start"
  /\ \E s \in {FormRedraw([drawForm(FormState) EXCEPT
                             !.curField = 0,
                             !.cursor = RuneCountInString(fl[1].Input)])} :
       /\ fl' = s.fl /\ curField' = s.curField /\ cursor' = s.cursor
       /\ curPos' = s.curPos /\ hwCursor' = s.hw /\ cells' = s.cells
       /\ shown' = s.shown
  /\ fpc' = "input"
  /\ UNCHANGED <<closed, termbox, termSize, startPos, runVars, buf, dpc,
                 resolverVars, historyVars, tokenizerVars>>

\* One pass of the loop of getInputs, form.go lines 55-110: Field.getInput
\* for the event tev, then the body of the loop
FormEvent ==
  /\ fpc = "input"
  /\ \E tev \in FormEvents :
     \E f \in {fl[curField + 1]} :
     \E g \in {getInput(f.pos, cursor, f.Input, f.Mask, tev,
                        [closed |-> closed, curPos |-> curPos,
                         termSize |-> termSize, hw |-> hwCursor,
                         cells |-> cells])} :
     \E s \in {getInputsPass(
                 [FormState EXCEPT
                    !.fl[curField + 1].Input =
                       IF g.ev.Type = "EventKey" THEN g.ev.Input ELSE f.Input,
                    !.curPos = g.curPos, !.termSize = g.termSize,
                    !.hw = g.hw, !.cells = g.cells,
                    !.shown = IF f.Mask = "" \/ g.cells = cells THEN shown
                              ELSE shown \cup {g.cells[i].r :
                                                 i \in 1..Len(g.cells)}],
                 g, curPos.y)} :
           /\ Len(g.ev.Input) <= MaxField
           /\ s.curPos.y <= MaxRow
           /\ rev' = [Type |-> g.ev.Type,
                      Key |-> IF g.ev.Key \in RunKeys THEN g.ev.Key ELSE "0",
                      Error |-> g.ev.Error, polled |-> g.polled, at |-> ""]
           /\ fl' = s.fl /\ curField' = s.curField /\ cursor' = s.cursor
           /\ curPos' = s.curPos /\ termSize' = s.termSize
           /\ hwCursor' = s.hw /\ cells' = s.cells /\ shown' = s.shown
           /\ fpc' = IF g.panic THEN "panicked"
                     ELSE IF s.done THEN "done" ELSE "input"
  /\ UNCHANGED <<closed, termbox, startPos, rpc, rret, route, closer, buf,
                 dpc, resolverVars, historyVars, tokenizerVars>>

(***************************************************************************)
(* The redraw on its own: drawText over every small line, cursor, origin   *)
(* and terminal width.                                                     *)
(***************************************************************************)
\* The line of the specification's example, "0123456789A".
ExampleLine == <<"0", "1", "2", "3", "4", "5", "6", "7", "8", "9", "A">>

DrawLines ==
  {ExampleLine}
    \cup UNION {[1..n -> {"a", Lead, Cont, "\n"}] : n \in 0..MaxBuf}

\* A running CLI about to redraw the line buf from the origin startPos; the
\* origin may lie right of the last column, as after a resize.
DrawInit ==
  /\ closed = FALSE
  /\ termbox = "up"
  /\ termSize \in {pos(w, 2) : w \in 1..MaxWidth}
  /\ startPos \in {pos(x, y) : x \in 0..termSize.x, y \in 0..1}
  /\ curPos = startPos
  /\ hwCursor = NoCursor
  /\ cells = <<>>
  /\ buf \in DrawLines
  /\ cursor \in -1..(RuneCountInString(buf) + 1)
  /\ dpc = "start"

\* curPos = startPos; drawText(cursor, line) as in getInput
DrawText ==
  /\ dpc = "start"
  /\ LET d == drawText(cursor, buf, startPos, hwCursor, termSize.x)
     IN  /\ curPos' = d.curPos
         /\ hwCursor' = d.hw
         /\ cells' = d.cells
  /\ dpc' = "drawn"
  /\ UNCHANGED <<closed, termbox, termSize, cursor, startPos, buf, runVars,
                 formVars, resolverVars, historyVars, tokenizerVars>>

(***************************************************************************)
(* The specifications: the resolver and Exec over every command set and    *)
(* path, the history under every sequence of its operations, and the       *)
(* tokenizer over every input.                                             *)
(***************************************************************************)
InitResolve == ResolverInit /\ HistoryIdle /\ TokenizerIdle /\ ScreenIdle

NextResolve ==
  \/ Resolve
  \/ ExecDispatch

SpecResolve == InitResolve /\ [][NextResolve]_vars

InitHistory == HistoryInit /\ ResolverIdle /\ TokenizerIdle /\ ScreenIdle

NextHistory ==
  \/ HFirst
  \/ HLast
  \/ HPrev
  \/ HNext
  \/ HNew
  \/ HGet
  \/ \E s \in Texts : HSet(s)
  \/ HRevert
  \/ HRevertAndAdd

SpecHistory == InitHistory /\ [][NextHistory]_vars

InitArgs == TokenizerInit /\ ResolverIdle /\ HistoryIdle /\ ScreenIdle

NextArgs == ParseArgs

SpecArgs == InitArgs /\ [][NextArgs]_vars

InitDraw ==
  DrawInit /\ RunIdle /\ FormIdle /\ ResolverIdle /\ HistoryIdle
  /\ TokenizerIdle

NextDraw == DrawText

SpecDraw == InitDraw /\ [][NextDraw]_vars

InitForm ==
  /\ FormInit /\ RunIdle /\ DrawIdle /\ ResolverIdle /\ HistoryIdle
  /\ TokenizerIdle

NextForm ==
  \/ FormStart
  \/ FormEvent

SpecForm == InitForm /\ [][NextForm]_vars

Init == RunInit /\ DrawIdle /\ FormIdle /\ TokenizerIdle

Next ==
  \/ RunStart
  \/ RunGetInput
  \/ RunEvent
  \/ Close
  \/ Printf

Spec == Init /\ [][Next]_vars

(***************************************************************************)
(* The history manager.                                                    *)
(***************************************************************************)
\* C4: starting from the empty history, after any sequence of first, last,
\* prev, next, new, get, set, revert and revertAndAdd the index satisfies
\* 0 <= index <= len(entries).
C4_IndexInRange == 0 <= index /\ index <= Len(entries)

\* A full history on its last entry, where next was called and was clamped.
C4_Witness ==
  /\ hop = "next" /\ hret = "stayed"
  /\ Len(entries) = 3 /\ index = Len(entries) - 1

\* C5: once an entry is not the last entry, no operation changes its original
\* text, and it stays an entry that is not the last.
C5_OriginalKept ==
  [][\A i \in 1..(Len(entries) - 1) :
       /\ i < Len(entries')
       /\ entries'[i].original = entries[i].original]_vars

\* An earlier entry was recalled and set to another text: the text is held as
\* the override and the original is still there.
C5_Witness ==
  /\ hop = "set" /\ hret = "changed"
  /\ index < Len(entries) - 1
  /\ entries[index + 1].isEdited
  /\ entries[index + 1].edited = harg
  /\ entries[index + 1].original # harg

\* C6: revertAndAdd on an earlier entry overridden with text t replaces the
\* last entry by a fresh entry of original t without override, clears the
\* override of the current entry, keeps its original, the number of entries,
\* the index and every other entry; on the last entry, on an entry without
\* override and on the empty history it changes nothing.
C6_RevertAndAdd ==
  [][hop' = "revertAndAdd" =>
       IF Len(entries) > 0 /\ index < Len(entries) - 1
          /\ entries[index + 1].isEdited
       THEN /\ Len(entries') = Len(entries)
            /\ index' = index
            /\ entries'[Len(entries)].original = entries[index + 1].edited
            /\ ~entries'[Len(entries)].isEdited
            /\ ~entries'[index + 1].isEdited
            /\ entries'[index + 1].original = entries[index + 1].original
            /\ \A j \in 1..Len(entries) \ {index + 1, Len(entries)} :
                 entries'[j] = entries[j]
       ELSE entries' = entries /\ index' = index]_vars

\* The example: revertAndAdd changed the history into [ls, cd /, ls -l] with
\* the index still on entry 0, whose override is gone.
C6_Witness ==
  /\ hop = "revertAndAdd" /\ hret = "changed"
  /\ index = 0
  /\ entries = <<line("ls"), line("cd /"), line("ls -l")>>

\* C7: in every history state and for every text t, get() right after set(t)
\* returns t.
C7_SetThenGet == hop = "set" => get(cur) = harg

\* An earlier entry whose override was given up by setting its original text
\* again: the edited text is still stored, and get returns the original.
C7_Witness ==
  /\ hop = "set"
  /\ index < Len(entries) - 1
  /\ ~entries[index + 1].isEdited
  /\ entries[index + 1].edited # ""
  /\ harg = entries[index + 1].original

(***************************************************************************)
(* The resolver.  Descent describes, in the words of the claims, how far a *)
(* path leads into a command set: token by token, an exact child name or   *)
(* else the only child the token is a prefix of, until the tokens are      *)
(* exhausted, the last token is the "?" of a listing request, a command    *)
(* without children is reached, or a token is unmatched or ambiguous.      *)
(***************************************************************************)
Candidates(l, tok) ==
  IF tok \in DOMAIN l THEN {tok} ELSE {n \in DOMAIN l : HasPrefix(n, tok)}

Halt(how, depth, reached, node) ==
  [halt |-> how, depth |-> depth, reached |-> reached, node |-> node]

RECURSIVE Descend(_, _, _, _, _)
Descend(l, p, depth, reached, node) ==
  IF depth = Len(p) THEN Halt("exhausted", depth, reached, node)
  ELSE IF depth = Len(p) - 1 /\ p[depth + 1] = QMark
  THEN Halt("listing", depth, reached, node)
  ELSE IF DOMAIN l = {} THEN Halt("leaf", depth, reached, node)
  ELSE LET c == Candidates(l, p[depth + 1])
       IN  IF Cardinality(c) = 1
           THEN LET child == l[CHOOSE n \in c : TRUE]
                IN  Descend(child.List, p, depth + 1, reached \cup {child},
                            child)
           ELSE Halt(IF c = {} THEN "unmatched" ELSE "ambiguous",
                     depth, reached, node)

Descent == Descend(list, path.s, 0, {}, NoCommand)

Resolved == pc \in {"resolved", "executed", "panicked"}

\* Input other than the empty input (no tokens, or a single empty token),
\* for which resolvePath returns nothing.
NonEmptyInput == ~path.nil /\ Len(path.s) > 0 /\ path.s # <<EmptyStr>>

\* Every token matches at its level, down to the node reached.
UniquePath ==
  /\ NonEmptyInput /\ LastOf(path.s) # QMark
  /\ Descent.halt \in {"exhausted", "leaf"}
  /\ Descent.depth >= 1

SingleEntry ==
  /\ rres.panic = "" /\ ~rres.possNil
  /\ Cardinality(DOMAIN rres.possibilities) = 1
  /\ \A k \in DOMAIN rres.possibilities :
       rres.possibilities[k] = Descent.node
  /\ rres.args = Slice(SubSeq(path.s, Descent.depth + 1, Len(path.s)))

QMarkPath == ~path.nil /\ Len(path.s) > 0 /\ LastOf(path.s) = QMark

\* C2 as claimed: for every non-empty path whose last token is "?", list is
\* true and "?" does not occur in the returned args.
C2_QMarkNotInArgs ==
  (Resolved /\ QMarkPath) =>
     /\ rres.list
     /\ \A i \in 1..Len(rres.args.s) : rres.args.s[i] # QMark

\* C2 amended: for every such path on which resolvePath returns (it does not
\* panic on a parent with arguments), list is true, args is not empty and
\* its last element is the "?" token, which was not consumed by the descent
\* even where a child is named "?", and the lone path "?" matches every
\* command of the set, unfiltered.
C2_QMarkForcesList ==
  (Resolved /\ QMarkPath /\ rres.panic = "") =>
     /\ rres.list
     /\ ~rres.args.nil
     /\ Len(rres.args.s) > 0 /\ LastOf(rres.args.s) = QMark
     /\ Len(rres.args.s) = Len(path.s) - Descent.depth
     /\ path.s = <<QMark>> => DOMAIN rres.possibilities = DOMAIN list

\* The set has a command named "?" and the path is "?": the listing of the
\* whole set, with "?" left in args.
C2_Witness ==
  /\ pc = "resolved"
  /\ list = QuestionList
  /\ path = Slice(<<QMark>>)
  /\ rres.list
  /\ rres.args = Slice(<<QMark>>)

ParentWithArguments(cmd) == IsBranch(cmd) /\ Len(cmd.Arguments) > 0

\* C3 as claimed: every path whose descent reaches a node with children and
\* arguments, wherever the descent then stops or goes on, makes resolvePath
\* panic.
C3_PanicWheneverReached ==
  (Resolved /\ NonEmptyInput
   /\ \E cmd \in Descent.reached : ParentWithArguments(cmd))
     => rres.panic = ParentPanic

\* C3 amended: resolvePath panics exactly when the descent halts on such a
\* node by exhausting the tokens or by the "?" of a listing request; when an
\* unmatched or ambiguous token halts it there, or it goes on into a child,
\* resolvePath returns.
C3_PanicWhereHalted ==
  Resolved =>
     (rres.panic = ParentPanic <=>
        /\ NonEmptyInput
        /\ Descent.halt \in {"exhausted", "listing"}
        /\ Descent.depth >= 1
        /\ ParentWithArguments(Descent.node))

\* A listing request on a parent with arguments panicked.
C3_Witness ==
  /\ pc = "panicked"
  /\ Descent.halt = "listing"
  /\ ParentWithArguments(Descent.node)
  /\ rres.panic = ParentPanic

(***************************************************************************)
(* The tokenizer.                                                          *)
(***************************************************************************)
\* C8: for every input, parseArgs returns the tokens of the reference
\* grammar: the input joined with single spaces and scanned character by
\* character, an unescaped, unquoted space ending the current token.
C8_ReferenceGrammar ==
  apc = "done" => newArgs.s = parseArgsJoined(args).s

Count(str, c) == Cardinality({i \in 1..Len(str) : str[i] = c})

RECURSIVE Flatten(_)
Flatten(ss) == IF Len(ss) = 0 THEN <<>> ELSE ss[1] \o Flatten(Tail(ss))

\* The spaces of a joined input that lie between an opening and a closing
\* unescaped double quote or directly after an unescaped backslash: k counts
\* them, open those seen since a quote that is not closed yet.
RECURSIVE KeptSpaces(_, _, _, _, _)
KeptSpaces(str, inQuote, isEscaped, open, k) ==
  IF Len(str) = 0 THEN k
  ELSE LET r == str[1]
           rest == Tail(str)
       IN  IF r = Backslash
           THEN KeptSpaces(rest, inQuote, ~isEscaped, open, k)
           ELSE IF r = Quote /\ ~isEscaped
           THEN IF inQuote THEN KeptSpaces(rest, FALSE, FALSE, 0, k + open)
                ELSE KeptSpaces(rest, TRUE, FALSE, 0, k)
           ELSE IF r = Space /\ isEscaped
           THEN KeptSpaces(rest, inQuote, FALSE, open, k + 1)
           ELSE IF r = Space /\ inQuote
           THEN KeptSpaces(rest, inQuote, FALSE, open + 1, k)
           ELSE KeptSpaces(rest, inQuote, FALSE, open, k)

\* The double quotes (c = Quote) or backslashes (c = Backslash) of a joined
\* input that are escaped, and so are text.
RECURSIVE EscapedCount(_, _, _)
EscapedCount(str, isEscaped, c) ==
  IF Len(str) = 0 THEN 0
  ELSE IF isEscaped /\ str[1] \in {Quote, Backslash}
  THEN (IF str[1] = c THEN 1 ELSE 0) + EscapedCount(Tail(str), FALSE, c)
  ELSE EscapedCount(Tail(str), str[1] = Backslash, c)

\* C9: for every input, each space between an opening and a closing
\* unescaped double quote or directly after an unescaped backslash is in the
\* output, the delimiting quotes and the escaping backslashes are not; the
\* example yields a, b c, d e and the empty input the empty sequence.
C9_QuotingKeepsSpaces ==
  apc = "done" =>
     LET joined == Join(args.s, <<Space>>)
         text == Flatten(newArgs.s)
     IN  /\ Count(text, Space) >= KeptSpaces(joined, FALSE, FALSE, 0, 0)
         /\ Count(text, Quote) = EscapedCount(joined, FALSE, Quote)
         /\ Count(text, Backslash) = EscapedCount(joined, FALSE, Backslash)
         /\ args = Slice(ExampleArgs) =>
              newArgs = Slice(<<(<<"a">>), <<"b", Space, "c">>,
                                <<"d", Space, "e">>>>)
         /\ Len(args.s) = 0 => Len(newArgs.s) = 0

(***************************************************************************)
(* Exec.                                                                   *)
(***************************************************************************)
\* The path resolved to one match with a handler, and no listing was asked.
UniqueHandler ==
  /\ pc = "executed"
  /\ ~rres.possNil /\ ~rres.list
  /\ Cardinality(DOMAIN rres.possibilities) = 1
  /\ \A k \in DOMAIN rres.possibilities : rres.possibilities[k].Handler

\* C10: for a path that resolves to one match with a handler, Exec invokes
\* the handler exactly when tokenizing the remaining tokens gives as many
\* arguments as are declared, and passes that many; on any other count it
\* prints the usage line, invokes nothing and returns false.
C10_ArityDecidesExec ==
  UniqueHandler =>
     \A k \in DOMAIN rres.possibilities :
        LET item == rres.possibilities[k]
            n == Len(parseArgs(rres.args).s)
        IN  IF n = Len(item.Arguments)
            THEN /\ eres.executed
                 /\ Len(eres.calls) = 1
                 /\ Len(eres.calls[1].args) = n
            ELSE /\ ~eres.executed
                 /\ eres.calls = <<>>
                 /\ eres.out = <<UsageLine(k, item)>>

\* C11: for every command set and every path, Exec returns true if and only
\* if it invoked a command handler during the call, and it invokes at most
\* one handler, at most once.
C11_TrueIffHandlerRan ==
  pc = "executed" =>
     /\ Len(eres.calls) <= 1
     /\ eres.executed <=> Len(eres.calls) = 1

\* An abbreviated path with one argument ran the handler of a command that
\* declares one argument, and Exec returned true.
C11_Witness ==
  /\ pc = "executed"
  /\ path = Slice(<<NameA, NameA>>)
  /\ eres.executed
  /\ Len(eres.calls) = 1
  /\ eres.calls[1].args = <<NameA>>

(***************************************************************************)
(* The redraw.                                                             *)
(***************************************************************************)
NoControl(bs) == \A i \in 1..Len(bs) : bs[i] \notin {"\r", "\n"}

\* C18: for a line without control characters drawn from the origin (x0, y0)
\* with 0 <= x0 < W on a terminal of width W >= 1 and a logical cursor c with
\* 0 <= c <= number of code points, drawText sets the hardware cursor at
\* column (x0 + c) mod W of row y0 + (x0 + c) div W, never at a column >= W;
\* width 10, origin (0, 0), the line "0123456789A" and cursor 10 give row 1,
\* column 0.
C18_CursorPlacement ==
  /\ (/\ dpc = "drawn"
      /\ NoControl(buf)
      /\ startPos.x < termSize.x
      /\ 0 <= cursor /\ cursor <= RuneCountInString(buf))
       => LET W == termSize.x
              k == startPos.x + cursor
          IN  /\ hwCursor = pos(k % W, startPos.y + (k \div W))
              /\ hwCursor.x < W
  /\ (/\ dpc = "drawn"
      /\ termSize.x = 10 /\ startPos = pos(0, 0)
      /\ buf = ExampleLine /\ cursor = 10)
       => hwCursor = pos(0, 1)

\* The example line was drawn at width 10 with the cursor on code point 10.
C18_Witness ==
  /\ dpc = "drawn"
  /\ termSize.x = 10 /\ startPos = pos(0, 0)
  /\ buf = ExampleLine /\ cursor = 10
  /\ Len(cells) = 11
  /\ hwCursor = pos(0, 1)

(***************************************************************************)
(* The REPL driver.                                                        *)
(***************************************************************************)
\* C12: after an Enter whose command executed and whose handler did not
\* close the CLI, Run being back at its loop, the history index is on the
\* last entry, the effective text of that entry is empty and the editing
\* cursor is 0, wherever the log stood at the Enter.
C12_FreshEntryAfterEnter ==
  (rpc = "loop" /\ rev.Key = "KeyEnter" /\ eres.executed)
    => /\ entries # <<>>
       /\ index = Len(entries) - 1
       /\ get(cur) = ""
       /\ cursor = 0

\* An edited earlier entry was executed while the last entry held a typed
\* line: the log grew to three entries.
C12_Witness ==
  /\ rpc = "loop" /\ rev.Key = "KeyEnter" /\ eres.executed
  /\ rev.at = "edited"
  /\ Len(entries) = 3
  /\ entries[1].original # entries[2].original

\* The effective text of entry i of the log.
EffectiveText(e, i) == get(History(e, i - 1))

\* Run is back at its loop after an Enter whose command did not execute.
FailedEnter ==
  rpc = "loop" /\ rev.Key = "KeyEnter" /\ ~eres.executed

\* C13: a pass of Run for an Enter whose command did not execute (and did
\* not panic) leaves the history index, the effective text of the current
\* entry and of every entry there was, and the editing cursor as they were
\* before the Enter.
C13_FailedEnterKeepsLine ==
  [][(rpc \in {"loop", "poll"} /\ rpc' = "loop" /\ rev'.Key = "KeyEnter"
        /\ ~eres'.executed)
       => /\ index' = index
          /\ cursor' = cursor
          /\ get(History(entries', index')) = get(cur)
          /\ Len(entries') >= Len(entries)
          /\ \A i \in 1..Len(entries) :
                EffectiveText(entries', i) = EffectiveText(entries, i)]_vars

\* A failed Enter on an edited earlier entry that holds a typed line, the
\* cursor behind it.
C13_Witness ==
  /\ FailedEnter
  /\ rev.at = "edited"
  /\ get(cur) # ""
  /\ cursor = 1
  /\ eres.out # <<>>

\* C14: a pass of Run for a Tab invokes no command handler, whatever the
\* command set and the line, and if Run goes on (the resolver did not
\* panic) the effective text of the current entry and the history index are
\* as before the Tab.
C14_TabRunsNoHandler ==
  [][(rpc \in {"loop", "poll"} /\ rev'.Key = "KeyTab")
       => /\ eres'.calls = <<>>
          /\ ~eres'.executed
          /\ closer' # "handler"
          /\ rpc' = "loop"
               => /\ index' = index
                  /\ get(History(entries', index')) = get(cur)]_vars

\* Tab on a line that names a command an Enter would run: its candidates
\* were printed.
C14_Witness ==
  /\ rpc = "loop" /\ rev.Key = "KeyTab"
  /\ get(cur) = "a"
  /\ Exec(list, Slice(<<NameA>>)).executed
  /\ eres.out # <<>>
  /\ route = "screen"

\* C15: once Close has been called while Run was executing, by a handler or
\* from outside, Run returns nil, unless a terminal error event ended it
\* first.
C15_CloseReturnsNil ==
  (rpc = "returned" /\ closer # "" /\ rev.Error # "ErrTerm")
    => rret = "nil"

\* C16: Run is never over, by return or by panic, with the terminal backend
\* still acquired, and the backend is acquired only by a step that starts an
\* execution of Run.
C16_BackendReleased ==
  /\ [](rpc \in {"returned", "panicked"} => termbox # "up")
  /\ [][(termbox' = "up" /\ termbox # "up")
          => (rpc \in {"idle", "returned"} /\ rpc' = "loop")]_vars

\* A handler panicked out of Run and the backend was released.
C16_Witness ==
  /\ rpc = "panicked"
  /\ eres.executed
  /\ termbox = "released"

\* C20: whenever closed is false the terminal backend is acquired and not
\* yet released, so that Printf and Println take the screen path only then.
C20_ScreenOnlyWithBackend == ~closed => termbox = "up"

(***************************************************************************)
(* The line editor and the form.                                           *)
(***************************************************************************)
\* C17: a call of getInput while closed is set returns an EventError
\* carrying ErrNotRunning without calling PollEvent, and leaves the text of
\* the field, the logical cursor, curPos and termSize as they were.
C17_ClosedFailsAtOnce ==
  [][(closed /\ fpc = "input")
       => /\ rev'.Type = "EventError"
          /\ rev'.Error = "ErrNotRunning"
          /\ ~rev'.polled
          /\ fl' = fl
          /\ cursor' = cursor
          /\ curPos' = curPos
          /\ termSize' = termSize]_vars

\* getInput was called for a field with preset text while closed was set.
C17_Witness ==
  /\ closed /\ fpc = "input"
  /\ rev.Error = "ErrNotRunning"
  /\ fl[curField + 1].Input # <<>>
  /\ cursor = 1

\* C19: no draw of the line of a masked field writes to a cell anything but
\* the mask character.
C19_MaskedNeverShown == shown \subseteq {MaskChar}

(***************************************************************************)
(* The resolver and Exec, continued.                                       *)
(***************************************************************************)
ParentWithHandler(cmd) == IsBranch(cmd) /\ cmd.Handler

\* C21: resolving or executing a path whose descent reaches a command with
\* both a non-empty List and a handler panics.
C21_ParentWithHandlerPanics ==
  (Resolved /\ NonEmptyInput
   /\ \E cmd \in Descent.reached : ParentWithHandler(cmd))
     => pc = "panicked"

\* C22: when resolvePath returned a non-nil matches map, Exec prints
\* "Command not found" if it is empty, and if it holds several entries or a
\* listing was asked one line for every entry and no other, in ascending
\* order of the names; no handler is invoked in either case.
C22_OneLinePerMatch ==
  (pc = "executed" /\ ~rres.possNil) =>
     LET keys == DOMAIN rres.possibilities
     IN  /\ keys = {} =>
              /\ eres.out = <<NotFoundLine>>
              /\ eres.calls = <<>> /\ ~eres.executed
         /\ (keys # {} /\ (Cardinality(keys) > 1 \/ rres.list)) =>
              /\ Len(eres.out) = Cardinality(keys)
              /\ {eres.out[i].name : i \in 1..Len(eres.out)} = keys
              /\ \A i, j \in 1..Len(eres.out) :
                    i < j => StrLess(eres.out[i].name, eres.out[j].name)
              /\ eres.calls = <<>> /\ ~eres.executed

\* Every node of a command set with its fully-qualified name: the names of
\* the children on the way to it from the root, joined by single spaces.
RECURSIVE QualifiedNodes(_, _)
QualifiedNodes(l, prefix) ==
  UNION {{[key |-> ItemKey(prefix, n), node |-> l[n]]}
           \cup QualifiedNodes(l[n].List, ItemKey(prefix, n)) :
         n \in DOMAIN l}

\* C23: every key of the matches returned by resolvePath is the
\* fully-qualified name of the node it maps to, whether the tokens of the
\* path were full names or abbreviations.
C23_KeysFullyQualified ==
  (Resolved /\ rres.panic = "") =>
     \A k \in DOMAIN rres.possibilities :
        [key |-> k, node |-> rres.possibilities[k]]
          \in QualifiedNodes(list, <<>>)

\* The children of the node on which the descent along p halts, each with
\* its fully-qualified name; none if a token is unmatched or ambiguous.
RECURSIVE ReachedChildren(_, _, _)
ReachedChildren(l, p, prefix) ==
  IF p = <<>> \/ p = <<QMark>>
  THEN {[key |-> ItemKey(prefix, n), node |-> l[n]] : n \in DOMAIN l}
  ELSE LET c == Candidates(l, p[1])
       IN  IF Cardinality(c) # 1 THEN {}
           ELSE LET n == CHOOSE m \in c : TRUE
                IN  ReachedChildren(l[n].List, Tail(p), ItemKey(prefix, n))

\* The descent halted, by exhausting the tokens or by a trailing "?", on a
\* node (or on the root) that has children and no declared arguments, and a
\* listing was asked or the node has no handler.
HaltedOnBranch ==
  /\ Resolved /\ rres.panic = "" /\ NonEmptyInput
  /\ Descent.halt \in {"exhausted", "listing"}
  /\ ReachedChildren(list, path.s, <<>>) # {}
  /\ Descent.node.Arguments = <<>>
  /\ Descent.halt = "listing" \/ ~Descent.node.Handler

\* C24: the matches returned are then the children of that node, each keyed
\* by the path of the node and its name, and nothing else.
C24_ChildrenOnly ==
  HaltedOnBranch =>
     {[key |-> k, node |-> rres.possibilities[k]] :
        k \in DOMAIN rres.possibilities}
       = ReachedChildren(list, path.s, <<>>)

NoStop == [at |-> -1, kids |-> {}]

\* Where the descent along p stops on a token that is no exact name and a
\* prefix of several children of l: the number of tokens matched before it
\* and those children with their fully-qualified names.
RECURSIVE AmbiguousStop(_, _, _, _)
AmbiguousStop(l, p, i, prefix) ==
  IF i = Len(p) \/ (i = Len(p) - 1 /\ p[i + 1] = QMark) \/ DOMAIN l = {}
  THEN NoStop
  ELSE LET c == Candidates(l, p[i + 1])
       IN  IF Cardinality(c) = 1
           THEN LET n == CHOOSE m \in c : TRUE
                IN  AmbiguousStop(l[n].List, p, i + 1, ItemKey(prefix, n))
           ELSE IF c = {} THEN NoStop
           ELSE [at |-> i,
                 kids |-> {[key |-> ItemKey(prefix, n), node |-> l[n]] :
                             n \in c}]

\* C25: a token that is no exact name at its level and a prefix of two or
\* more children there stops resolvePath with exactly those children as
\* matches, each keyed by its path, with list set and with every token from
\* that one onward as the remaining arguments.
C25_AmbiguousStops ==
  LET stop == AmbiguousStop(list, path.s, 0, <<>>)
  IN  (Resolved /\ NonEmptyInput /\ stop.at >= 0) =>
         /\ rres.panic = ""
         /\ {[key |-> k, node |-> rres.possibilities[k]] :
               k \in DOMAIN rres.possibilities} = stop.kids
         /\ rres.list
         /\ rres.args = SliceFrom(path.s, stop.at)

\* Following the path, some token has no candidate among the children of
\* its level, whatever the token and the level are.
RECURSIVE HasUnmatchedToken(_, _)
HasUnmatchedToken(l, p) ==
  /\ p # <<>>
  /\ LET c == Candidates(l, p[1])
     IN  \/ c = {}
         \/ /\ Cardinality(c) = 1
            /\ HasUnmatchedToken(l[CHOOSE n \in c : TRUE].List, Tail(p))

\* Exec did nothing: no matches at all, no arguments, no line, no handler.
DidNothing ==
  /\ rres.panic = "" /\ rres.possNil /\ rres.possibilities = <<>>
  /\ rres.args = NilSlice
  /\ pc = "executed" =>
        eres.out = <<>> /\ eres.calls = <<>> /\ ~eres.executed

\* Exec found no command: empty matches that are not nil, the line
\* "Command not found", no handler.
DidNotFind ==
  /\ rres.panic = "" /\ ~rres.possNil /\ rres.possibilities = <<>>
  /\ pc = "executed" =>
        eres.out = <<NotFoundLine>> /\ eres.calls = <<>> /\ ~eres.executed

\* C26: the empty input does nothing, and a path holding a token that is
\* neither the name nor a prefix of a child at its level is not found.
C26_NothingOrNotFound ==
  /\ (Resolved /\ ~NonEmptyInput) => DidNothing
  /\ (Resolved /\ NonEmptyInput /\ HasUnmatchedToken(list, path.s))
        => DidNotFind

\* C26, amended: the empty input does nothing; a path is not found when
\* the token without candidates is one the descent looks up, that is, not
\* the trailing "?" and not a token that follows a command without
\* children, which is an argument of that command.
C26_NothingVsNotFound ==
  /\ (Resolved /\ ~NonEmptyInput) => DidNothing
  /\ (Resolved /\ NonEmptyInput /\ Descent.halt = "unmatched") => DidNotFind

C26_Witness ==
  /\ pc = "executed" /\ NonEmptyInput
  /\ Descent.halt = "unmatched" /\ Descent.depth >= 1
  /\ eres.out = <<NotFoundLine>>

(* The history, continued. *)

\* C27: an entry whose isEdited is set is never the last entry, and its
\* edited text differs from its original text.
C27_EditedNotLastAndDiffers ==
  \A i \in 1..Len(entries) :
     entries[i].isEdited =>
        /\ i < Len(entries)
        /\ entries[i].edited # entries[i].original

C27_Witness ==
  /\ hop = "set"
  /\ \E i \in 1..Len(entries) : entries[i].isEdited /\ index = i - 1

\* The text get returns on the last entry; empty without entries.
LastText ==
  IF entries = <<>> THEN "" ELSE get(History(entries, Len(entries) - 1))

\* C30: empty entries are never stacked. Every entry other than the last
\* has a non-empty original text, and new adds an entry, exactly one, only
\* when the text of the last entry is non-empty.
C30_NoStackedEmptyEntries ==
  /\ [](\A i \in 1..Len(entries) - 1 : entries[i].original # "")
  /\ [][hop' = "new" =>
          /\ Len(entries') \in {Len(entries), Len(entries) + 1}
          /\ Len(entries') = Len(entries) + 1 => LastText # ""]_vars

C30_Witness ==
  /\ hop = "new" /\ Len(entries) >= 2 /\ index = Len(entries) - 1
  /\ entries[Len(entries)] = line("")
  /\ entries[Len(entries) - 1].original # ""

(***************************************************************************)
(* The line editor under Run: the passes of the loop of Run for the keys   *)
(* that getInput handles by itself and Run has no case for, on lines of    *)
(* up to MaxEdit bytes that hold the character a and a rune of three       *)
(* bytes.                                                                  *)
(***************************************************************************)
MaxEdit == 6

\* The lines the editor can hold, and the bytes of such a line held as a
\* string in the log.
EditLines == UNION {[1..n -> {"a", Lead3, Cont}] : n \in 0..MaxEdit}

EditBytes ==
  [text \in {Str(bs) : bs \in EditLines} |->
     CHOOSE bs \in EditLines : Str(bs) = text]

\* The events of the editor: the editing keys and the two characters.
EditEvents ==
  LET tev(key, ch) ==
        [Type |-> "EventKey", Key |-> key, Ch |-> ch, Width |-> 0,
         Height |-> 0, Err |-> ""]
  IN  {tev(k, <<>>) :
         k \in {"KeyArrowLeft", "KeyArrowRight", "KeyHome", "KeyEnd",
                "KeyDelete", "KeyBackspace"}}
      \cup {tev("0", <<"a">>), tev("0", <<Lead3, Cont, Cont>>)}

\* Run, lines 422-432 and 505: a pass of the loop for an editing key
EditEvent ==
  /\ rpc = "loop" /\ ~closed
  /\ \E tev \in EditEvents :
     \E g \in {getInput(startPos, cursor, EditBytes[get(cur)], "", tev,
                        [closed |-> FALSE, curPos |-> curPos,
                         termSize |-> termSize, hw |-> hwCursor,
                         cells |-> cells])} :
     \E r \in {Handle(g, "return")} :
           /\ Len(g.ev.Input) <= MaxEdit
           /\ rev' = [Type |-> g.ev.Type, Key |-> g.ev.Key,
                      Error |-> g.ev.Error, polled |-> g.polled, at |-> ""]
           /\ entries' = IF r.exit # "" THEN <<>> ELSE r.h.entries
           /\ index' = IF r.exit # "" THEN 0 ELSE r.h.index
           /\ cursor' = IF r.exit # "" THEN 0 ELSE r.cursor
           /\ startPos' = IF r.exit # "" THEN pos(0, 0) ELSE r.startPos
           /\ curPos' = r.curPos /\ termSize' = r.termSize
           /\ hwCursor' = r.hw /\ cells' = r.cells
           /\ rpc' = IF r.exit # "" THEN r.exit ELSE "loop"
           /\ rret' = r.ret
           /\ termbox' = deferClose(r.exit)
  /\ UNCHANGED <<closed, closer, route, resolverVars, hop, harg, hret, buf,
                 dpc, formVars, tokenizerVars>>

InitEdit == RunInit /\ DrawIdle /\ FormIdle /\ TokenizerIdle

NextEdit ==
  \/ RunStart
  \/ EditEvent

SpecEdit == InitEdit /\ [][NextEdit]_vars

\* The line under the cursor of Run, as bytes.
EditLine == EditBytes[get(cur)]

\* C28: while Run is in its loop the cursor lies between 0 and the number
\* of code points of the current line, so that bytePos never panics.
C28_CursorInRange ==
  /\ rpc = "loop" => cursor \in 0..RuneCountInString(EditLine)
  /\ rpc # "panicked"

\* The code points of the current line of the log h.
CodePoints(h) ==
  LET rs == Runes(EditBytes[get(h)]) IN [i \in 1..Len(rs) |-> rs[i].r]

RemoveAt(s, i) == SubSeq(s, 1, i - 1) \o SubSeq(s, i + 1, Len(s))

\* C29: a deletion removes a whole code point. Delete with the cursor
\* before the end removes the code point at the cursor and leaves the
\* cursor; Backspace with the cursor after the start removes the code point
\* before the cursor and moves the cursor back by one; the other code
\* points stay, in their order.
C29_DeletesWholeCodePoint ==
  [][(rpc = "loop" /\ rpc' = "loop") =>
       LET was == CodePoints(cur)
           now == CodePoints(History(entries', index'))
       IN  /\ (rev'.Key = "KeyDelete" /\ cursor < Len(was)) =>
                 now = RemoveAt(was, cursor + 1) /\ cursor' = cursor
           /\ (rev'.Key = "KeyBackspace" /\ cursor \in 1..Len(was)) =>
                 now = RemoveAt(was, cursor) /\ cursor' = cursor - 1]_vars

(***************************************************************************)
(* Run recalling and resubmitting lines: the passes of the loop of Run for *)
(* Enter, the arrows up and down, Backspace and the characters a and b,    *)
(* with two commands a and b whose handlers return, on a log of up to      *)
(* MaxRecall entries.                                                      *)
(***************************************************************************)
MaxRecall == 4

RecallList ==
  (NameA :> Command(Desc, <<>>, TRUE, EmptyList))
    @@ (<<"b">> :> Command(Desc, <<>>, TRUE, EmptyList))

RecallEvents ==
  {tev \in TermEvents :
     /\ tev.Type = "EventKey"
     /\ \/ tev.Key \in {"KeyEnter", "KeyArrowUp", "KeyArrowDown",
                        "KeyBackspace"}
        \/ tev.Ch \in {<<"a">>, <<"b">>}}

\* Run, lines 422-507: a pass of the loop for one of these events
RecallEvent ==
  /\ rpc = "loop" /\ ~closed
  /\ \E tev \in RecallEvents :
     \E g \in {getInput(startPos, cursor, Bytes[get(cur)], "", tev,
                        [closed |-> FALSE, curPos |-> curPos,
                         termSize |-> termSize, hw |-> hwCursor,
                         cells |-> cells])} :
     \E r \in {Handle(g, "return")} :
           /\ Len(g.ev.Input) <= MaxLine
           /\ Len(r.h.entries) <= MaxRecall
           /\ rev' = [Type |-> g.ev.Type,
                      Key |-> IF g.ev.Key \in RunKeys THEN g.ev.Key ELSE "0",
                      Error |-> g.ev.Error,
                      polled |-> g.polled,
                      at |-> IF g.ev.Key = "KeyEnter"
                             THEN EnterAt(set(cur, Str(g.ev.Input)))
                             ELSE ""]
           /\ entries' = IF r.exit # "" THEN <<>> ELSE r.h.entries
           /\ index' = IF r.exit # "" THEN 0 ELSE r.h.index
           /\ cursor' = IF r.exit # "" THEN 0 ELSE r.cursor
           /\ startPos' = IF r.exit # "" THEN pos(0, 0) ELSE r.startPos
           /\ curPos' = r.curPos /\ termSize' = r.termSize
           /\ hwCursor' = r.hw /\ cells' = r.cells
           /\ closed' = r.closed /\ closer' = r.closer /\ route' = r.route
           /\ path' = r.path /\ eres' = r.eres
           /\ rpc' = IF r.exit # "" THEN r.exit ELSE "loop"
           /\ rret' = r.ret
           /\ termbox' = deferClose(r.exit)
  /\ UNCHANGED <<list, pc, rres, hop, harg, hret, buf, dpc, formVars,
                 tokenizerVars>>

InitRecall ==
  RunInit /\ list = RecallList /\ DrawIdle /\ FormIdle /\ TokenizerIdle

NextRecall ==
  \/ RunStart
  \/ RecallEvent

SpecRecall == InitRecall /\ [][NextRecall]_vars

\* A pass of Run for an Enter on an earlier entry that holds an edited
\* text, whose command executed, Run going on.
ResubmitStep ==
  /\ rpc = "loop" /\ rpc' = "loop" /\ ~closed'
  /\ rev'.Key = "KeyEnter" /\ rev'.at = "edited" /\ eres'.executed

\* C31: when an earlier entry with original text o, edited to another text
\* t, is executed by Enter, then afterwards that entry has no override and
\* its original is still o, the entry before the new empty current entry
\* has the original t, and every other entry but the former last one is as
\* it was.
C31_ResubmitKeepsOldLine ==
  [][ResubmitStep =>
       LET i == index + 1
           n == Len(entries)
       IN  /\ entries[i].isEdited /\ entries[i].edited # entries[i].original
           /\ Len(entries') = n + 1 /\ index' = n
           /\ ~entries'[i].isEdited
           /\ entries'[i].original = entries[i].original
           /\ entries'[n] = line(entries[i].edited)
           /\ entries'[n + 1] = line("")
           /\ \A j \in 1..(n - 1) :
                 j # i => entries'[j] = entries[j]]_vars

\* The first of four entries was resubmitted as b: it is a again, the
\* second entry, which held an override, kept it, and b stands before the
\* new empty entry.
C31_Witness ==
  /\ rpc = "loop" /\ rev.Key = "KeyEnter" /\ rev.at = "edited"
  /\ eres.executed
  /\ Len(entries) = 4 /\ index = 3
  /\ entries[1] = line("a")
  /\ entries[2].isEdited
  /\ entries[3] = line("b") /\ entries[4] = line("")

(* The form, continued. *)

\* C32: the input loop of a form does not outlive the CLI. A pass of
\* getInputs whose getInput fails, because the CLI is closed or because the
\* backend delivered an error event, ends getInputs: the loop does not go
\* on to call getInput again.
C32_FormEndsOnError ==
  [][(fpc = "input" /\ rev' # rev /\ rev'.Type = "EventError")
       => fpc' = "done"]_vars
====
